---- MODULE Spec2Model ----
(***************************************************************************)
(* AWS Incident Co-Pilot: the detection engine (copilot/detectors), the    *)
(* CloudWatch and CloudTrail sources it reads, the evidence collector      *)
(* (copilot/evidence) and the monitor command that drives them.            *)
(*                                                                         *)
(* Conventions.                                                            *)
(*  - Python str values are sequences of one-character strings, so that    *)
(*    replace(), slicing and "in" are computed character by character.     *)
(*  - CPU percentages are integers in tenths of a percent (95.0 is 950).   *)
(*  - A call either returns a value or raises: [raised, value | error].    *)
(*  - Datapoint timestamps are not modelled: no detector reads them, so    *)
(*    the sources' sort by Timestamp has nothing to reorder here.          *)
(***************************************************************************)
EXTENDS Integers, Sequences, FiniteSets, TLC

VARIABLES
    settings,       \* copilot.config.settings, read-only after start
    cloud,          \* what the AWS account currently holds (metrics, inventory, trail)
    faults,         \* outcome of the boto3 call behind each source method
    options,        \* the program run (the monitor command, or a caller of the collector)
                    \* and monitor's flags: continuous, collect_evidence, enable_alerts
    sigint,         \* whether the user will press Ctrl+C: "off" or "armed"
    disk,           \* the evidence root: the entries found in it at start, the directories
                    \* that cannot be made, and the files written since, by path and incident
    pc,             \* position of the monitor: "idle", "running", "done", "raised",
                    \* "collecting", "scanned", "sleeping", "exited", "stopped",
                    \* "crashed", "cleaning"
    idx,            \* run_all_detectors: index of the next detector in the roster
    all_incidents,  \* run_all_detectors: the list being built
    returned,       \* what each detector's detect() did in this scan
    collected,      \* what each collect_for_incident call of this scan did
    alerted,        \* what alert_on_incidents was called with in this scan, or NoAlert
    pending,        \* cleanup_old_evidence: the entries iterdir() has yet to yield
    scan_no,        \* number of scans started
    prev_incidents, \* what the previous completed scan returned, or NoScan
    reply           \* what the last call of load_incident, do_GET or
                    \* sanitize_error_message answered, or NoReply

vars == <<settings, cloud, faults, options, sigint, disk, pc, idx, all_incidents, returned,
          collected, alerted, pending, scan_no, prev_incidents, reply>>

----------------------------------------------------------------------------
(* Python values *)

NoneValue == "<None>"

Ok(v) == [raised |-> FALSE, value |-> v]
Raise(e) == [raised |-> TRUE, error |-> e]

\* dict.get(key, default)
Get(m, key, default) == IF key \in DOMAIN m THEN m[key] ELSE default

Min(a, b) == IF a <= b THEN a ELSE b

\* s[:n]
Take(s, n) == SubSeq(s, 1, Min(n, Len(s)))

\* s.replace(old, new) for one-character old and new
Replace(s, old, new) == [i \in 1..Len(s) |-> IF s[i] = old THEN new ELSE s[i]]

\* s[i:] starts with sub
StartsWithAt(s, i, sub) ==
    /\ i + Len(sub) - 1 <= Len(s)
    /\ \A k \in 1..Len(sub) : s[i + k - 1] = sub[k]

\* sub in s
Contains(s, sub) == \E i \in 1..(Len(s) + 1) : StartsWithAt(s, i, sub)

\* s.split(sep)[-1]: the text after the last occurrence of sep (all of s if none)
RECURSIVE AfterLastFrom(_, _, _)
AfterLastFrom(s, sep, i) ==
    IF i < 1 THEN s
    ELSE IF StartsWithAt(s, i, sep) THEN SubSeq(s, i + Len(sep), Len(s))
    ELSE AfterLastFrom(s, sep, i - 1)
AfterLast(s, sep) == AfterLastFrom(s, sep, Len(s))

\* s.split(ch)[0]: the text before the first occurrence of the character ch
RECURSIVE BeforeFirst(_, _)
BeforeFirst(s, ch) ==
    IF s = <<>> \/ Head(s) = ch THEN <<>>
    ELSE <<Head(s)>> \o BeforeFirst(Tail(s), ch)

UpperChars == {"A", "B", "C", "D", "E", "F", "G", "H", "I", "J", "K", "L", "M",
               "N", "O", "P", "Q", "R", "S", "T", "U", "V", "W", "X", "Y", "Z"}
UpperAlphabet == <<"A", "B", "C", "D", "E", "F", "G", "H", "I", "J", "K", "L", "M",
                   "N", "O", "P", "Q", "R", "S", "T", "U", "V", "W", "X", "Y", "Z">>
LowerAlphabet == <<"a", "b", "c", "d", "e", "f", "g", "h", "i", "j", "k", "l", "m",
                   "n", "o", "p", "q", "r", "s", "t", "u", "v", "w", "x", "y", "z">>
LowerChar(c) ==
    IF c \in UpperChars
    THEN LowerAlphabet[CHOOSE k \in 1..26 : UpperAlphabet[k] = c]
    ELSE c
\* s.lower()
Lower(s) == [i \in 1..Len(s) |-> LowerChar(s[i])]

\* sum(f(m) for m in metrics)
RECURSIVE SumOf(_, _, _)
SumOf(metrics, key, default) ==
    IF metrics = <<>> THEN 0
    ELSE Get(Head(metrics), key, default) + SumOf(Tail(metrics), key, default)

\* max(f(m) for m in metrics), metrics non-empty
MaxOf(metrics, key, default) ==
    LET vals == {Get(metrics[i], key, default) : i \in DOMAIN metrics}
    IN CHOOSE v \in vals : \A w \in vals : w <= v

RECURSIVE Flatten(_)
Flatten(ss) == IF ss = <<>> THEN <<>> ELSE Head(ss) \o Flatten(Tail(ss))

SeqsUpTo(S, n) == UNION {[1..k -> S] : k \in 0..n}

----------------------------------------------------------------------------
(* Literal text of the detectors *)

Slug_ec2 == <<"e", "c", "2", "-", "c", "p", "u", "-", "s", "p", "i", "k", "e">>
Slug_lambda == <<"l", "a", "m", "b", "d", "a", "-", "e", "r", "r", "o", "r", "s">>
Slug_bedrock == <<"b", "e", "d", "r", "o", "c", "k", "-", "t", "o", "k", "e", "n", "-", "u", "s", "a", "g", "e">>
Slug_s3 == <<"s", "3", "-", "a", "c", "c", "e", "s", "s", "-", "d", "e", "n", "i", "e", "d">>
Txt_title_ec2 == <<"E", "C", "2", " ", "C", "P", "U", " ", "S", "p", "i", "k", "e", " ", "o", "n", " ">>
Txt_title_lambda == <<"L", "a", "m", "b", "d", "a", " ", "E", "r", "r", "o", "r", "s", ":", " ">>
Txt_title_bedrock == <<"E", "x", "c", "e", "s", "s", "i", "v", "e", " ", "B", "e", "d", "r", "o", "c", "k", " ", "T", "o", "k", "e", "n", " ", "U", "s", "a", "g", "e", ":", " ">>
Txt_title_s3 == <<"S", "3", " ", "A", "c", "c", "e", "s", "s", " ", "D", "e", "n", "i", "e", "d", ":", " ">>
Txt_function == <<"f", "u", "n", "c", "t", "i", "o", "n", ":">>
Txt_model == <<"m", "o", "d", "e", "l", ":">>
Txt_json == <<".", "j", "s", "o", "n">>
Txt_txt == <<".", "t", "x", "t">>
Txt_cloudwatch_metrics == <<"c", "l", "o", "u", "d", "w", "a", "t", "c", "h", "-", "m", "e", "t", "r", "i", "c", "s", "-">>
Txt_ec2_instance_details == <<"e", "c", "2", "-", "i", "n", "s", "t", "a", "n", "c", "e", "-", "d", "e", "t", "a", "i", "l", "s", "-">>
Txt_lambda_error_metrics == <<"l", "a", "m", "b", "d", "a", "-", "e", "r", "r", "o", "r", "-", "m", "e", "t", "r", "i", "c", "s", "-">>
Txt_lambda_logs == <<"l", "a", "m", "b", "d", "a", "-", "l", "o", "g", "s", "-">>
Txt_bedrock_token_metrics == <<"b", "e", "d", "r", "o", "c", "k", "-", "t", "o", "k", "e", "n", "-", "m", "e", "t", "r", "i", "c", "s", "-">>
Txt_bedrock_invocation_metrics == <<"b", "e", "d", "r", "o", "c", "k", "-", "i", "n", "v", "o", "c", "a", "t", "i", "o", "n", "-", "m", "e", "t", "r", "i", "c", "s", "-">>
Txt_cloudtrail_s3 == <<"c", "l", "o", "u", "d", "t", "r", "a", "i", "l", "-", "s", "3", "-", "a", "c", "c", "e", "s", "s", "-", "d", "e", "n", "i", "e", "d", "-">>
Txt_s3_bucket_policy == <<"s", "3", "-", "b", "u", "c", "k", "e", "t", "-", "p", "o", "l", "i", "c", "y", "-">>
Txt_unknown == <<"u", "n", "k", "n", "o", "w", "n">>
Txt_arn_sep == <<":", ":", ":">>

\* model_ids of BedrockTokenUsageDetector.detect
Model_sonnet == <<"a", "n", "t", "h", "r", "o", "p", "i", "c", ".", "c", "l", "a", "u", "d", "e", "-", "3", "-", "s", "o", "n", "n", "e", "t", "-", "2", "0", "2", "4", "0", "2", "2", "9", "-", "v", "1", ":", "0">>
Model_haiku == <<"a", "n", "t", "h", "r", "o", "p", "i", "c", ".", "c", "l", "a", "u", "d", "e", "-", "3", "-", "h", "a", "i", "k", "u", "-", "2", "0", "2", "4", "0", "3", "0", "7", "-", "v", "1", ":", "0">>
Model_claude_v2 == <<"a", "n", "t", "h", "r", "o", "p", "i", "c", ".", "c", "l", "a", "u", "d", "e", "-", "v", "2", ":", "1">>
Model_titan == <<"a", "m", "a", "z", "o", "n", ".", "t", "i", "t", "a", "n", "-", "t", "e", "x", "t", "-", "e", "x", "p", "r", "e", "s", "s", "-", "v", "1">>
model_ids == <<Model_sonnet, Model_haiku, Model_claude_v2, Model_titan>>

----------------------------------------------------------------------------
(* boto3 and the two sources *)

\* How the boto3 call behind a source method ends.  ClientError covers the
\* authentication, authorization and throttling answers of the service,
\* NoCredentialsError missing credentials, EndpointConnectionError (a
\* BotoCoreError, not a ClientError) an unreachable endpoint.
Outcomes == {"ok", "ClientError", "NoCredentialsError", "EndpointConnectionError"}

Methods == {"get_all_ec2_instances", "get_ec2_cpu_metrics",
            "get_all_lambda_functions", "get_lambda_error_metrics",
            "get_lambda_duration_metrics", "get_bedrock_input_tokens",
            "get_bedrock_invocation_metrics", "lookup_events"}

Boto3Call(method, data) ==
    IF faults[method] = "ok" THEN Ok(data) ELSE Raise(faults[method])

\* except (ClientError, NoCredentialsError) as e: print(...); return []
CaughtBySource(error) == error \in {"ClientError", "NoCredentialsError"}

SourceTry(r) == IF r.raised /\ CaughtBySource(r.error) THEN Ok(<<>>) ELSE r

\* response.get("Datapoints", []) of the metric of one resource
Datapoints(table, key) == IF key \in DOMAIN table THEN table[key] ELSE <<>>

get_all_ec2_instances == SourceTry(Boto3Call("get_all_ec2_instances", cloud.instances))

get_ec2_cpu_metrics(instance_id) ==
    SourceTry(Boto3Call("get_ec2_cpu_metrics", Datapoints(cloud.cpu, instance_id)))

get_all_lambda_functions ==
    SourceTry(Boto3Call("get_all_lambda_functions", cloud.functions))

get_lambda_error_metrics(function_name) ==
    SourceTry(Boto3Call("get_lambda_error_metrics", Datapoints(cloud.errors, function_name)))

get_lambda_duration_metrics(function_name) ==
    SourceTry(Boto3Call("get_lambda_duration_metrics",
                        Datapoints(cloud.durations, function_name)))

get_bedrock_input_tokens(model_id) ==
    SourceTry(Boto3Call("get_bedrock_input_tokens", Datapoints(cloud.tokens, model_id)))

get_bedrock_invocation_metrics(model_id) ==
    SourceTry(Boto3Call("get_bedrock_invocation_metrics",
                        Datapoints(cloud.invocations, model_id)))

\* LookupAttributes EventName = event_name, MaxResults = max_results
lookup_events(event_name, max_results) ==
    SourceTry(Boto3Call("lookup_events",
        Take(SelectSeq(cloud.trail, LAMBDA e : e.EventName = event_name), max_results)))

S3LookupMaxResults == 100

\* json.loads(text): a CloudTrailEvent text is [doc |-> the object it encodes],
\* or a text that is no JSON document
json_loads(text) ==
    IF "doc" \in DOMAIN text THEN Ok(text.doc) ELSE Raise("JSONDecodeError")

EmptyDict == <<>>

\* One raw event to one access-denied record, or nothing: json.loads of
\* CloudTrailEvent fails (except JSONDecodeError: continue), or errorCode differs.
AccessDeniedRecord(event) ==
    LET parsed == json_loads(Get(event, "CloudTrailEvent", [doc |-> EmptyDict]))
    IN IF parsed.raised THEN <<>>
       ELSE IF Get(parsed.value, "errorCode", "") = "AccessDenied"
            THEN << [event_name |-> Get(event, "EventName", NoneValue),
                     username   |-> Get(event, "Username", NoneValue),
                     resources  |-> Get(event, "Resources", <<>>),
                     error_code |-> "AccessDenied"] >>
            ELSE <<>>

get_s3_access_denied_events ==
    LET r == lookup_events("GetObject", S3LookupMaxResults)
    IN IF r.raised THEN r
       ELSE Ok(Flatten([i \in 1..Len(r.value) |-> AccessDeniedRecord(r.value[i])]))

----------------------------------------------------------------------------
(* EC2CPUSpikeDetector *)

\* each datapoint is 5 min
SamplePeriodMinutes == 5

\* max_cpu > 98, in tenths of a percent
SeverityHighCpu == 980

high_cpu_count(metrics) ==
    Cardinality({i \in DOMAIN metrics :
                    Get(metrics[i], "Maximum", 0) > settings.ec2_cpu_threshold})

required_datapoints == settings.ec2_cpu_duration_minutes \div SamplePeriodMinutes

\* if not metrics: continue
ec2_no_metrics(metrics) == metrics = <<>>

EC2Triggers(metrics) == high_cpu_count(metrics) >= required_datapoints

\* Mutant: >= 98
EC2Severity_ge(max_cpu) == IF max_cpu >= SeverityHighCpu THEN "HIGH" ELSE "MEDIUM"

EC2Severity(max_cpu) == IF max_cpu > SeverityHighCpu THEN "HIGH" ELSE "MEDIUM"

\* Mutant: the id carries a per-scan stamp
EC2Id_stamped(instance_id) ==
    Slug_ec2 \o <<"-">> \o instance_id \o [i \in 1..scan_no |-> "#"]

\* Mutant: the instance id is lower-cased
EC2Id_lowercased(instance_id) == Slug_ec2 \o <<"-">> \o Lower(instance_id)

EC2Id(instance_id) == Slug_ec2 \o <<"-">> \o instance_id

\* avg_cpu is the exact quotient sum/len, kept as numerator and denominator
EC2Incident(instance_id, metrics) ==
    LET max_cpu == MaxOf(metrics, "Maximum", 0)
        avg_cpu == [num |-> SumOf(metrics, "Average", 0), den |-> Len(metrics)]
    IN [id             |-> EC2Id(instance_id),
        title          |-> Txt_title_ec2 \o instance_id,
        severity       |-> EC2Severity(max_cpu),
        resource       |-> instance_id,
        description    |-> [rule      |-> "ec2",
                            name      |-> instance_id,
                            threshold |-> settings.ec2_cpu_threshold,
                            minutes   |-> settings.ec2_cpu_duration_minutes,
                            max_cpu   |-> max_cpu,
                            avg_cpu   |-> avg_cpu],
        suggested_fix  |-> "ec2: top, right-size, logs, auto scaling",
        evidence_files |-> << Txt_cloudwatch_metrics \o instance_id \o Txt_json,
                              Txt_ec2_instance_details \o instance_id \o Txt_json >>]

\* for instance_id in instances: ...
RECURSIVE EC2Loop(_, _)
EC2Loop(instances, incidents) ==
    IF instances = <<>> THEN Ok(incidents)
    ELSE LET instance_id == Head(instances)
             r == get_ec2_cpu_metrics(instance_id)
         IN IF r.raised THEN r
            ELSE IF ec2_no_metrics(r.value) THEN EC2Loop(Tail(instances), incidents)
            ELSE IF EC2Triggers(r.value)
                 THEN EC2Loop(Tail(instances),
                              Append(incidents, EC2Incident(instance_id, r.value)))
                 ELSE EC2Loop(Tail(instances), incidents)

EC2CPUSpikeDetector_detect ==
    LET r == get_all_ec2_instances
    IN IF r.raised THEN r ELSE EC2Loop(r.value, <<>>)

----------------------------------------------------------------------------
(* LambdaErrorDetector *)

total_errors(error_metrics) == SumOf(error_metrics, "Sum", 0)

\* Mutant: the emptiness check is missing
lambda_no_error_metrics_never(error_metrics) == FALSE

\* if not error_metrics: continue
lambda_no_error_metrics(error_metrics) == error_metrics = <<>>

\* Mutant: > instead of >=
LambdaTriggers_strict(error_metrics) ==
    total_errors(error_metrics) > settings.lambda_error_threshold

LambdaTriggers(error_metrics) ==
    total_errors(error_metrics) >= settings.lambda_error_threshold

\* max_duration = 0; if duration_metrics: max_duration = max(...)
max_duration(duration_metrics) ==
    IF duration_metrics = <<>> THEN 0 ELSE MaxOf(duration_metrics, "Maximum", 0)

LambdaSeverity(duration_metrics) ==
    IF max_duration(duration_metrics) > settings.lambda_timeout_threshold_ms
    THEN "HIGH" ELSE "MEDIUM"

LambdaId(function_name) == Slug_lambda \o <<"-">> \o function_name

LambdaIncident(function_name, error_metrics, duration_metrics) ==
    [id             |-> LambdaId(function_name),
     title          |-> Txt_title_lambda \o function_name,
     severity       |-> LambdaSeverity(duration_metrics),
     resource       |-> Txt_function \o function_name,
     description    |-> [rule            |-> "lambda",
                         name            |-> function_name,
                         total_errors    |-> total_errors(error_metrics),
                         minutes         |-> settings.lookback_minutes,
                         timeout_warning |->
                             IF LambdaSeverity(duration_metrics) = "HIGH"
                             THEN <<max_duration(duration_metrics)>> ELSE <<>>],
     suggested_fix  |-> "lambda: logs, deployments, configuration, permissions",
     evidence_files |-> << Txt_lambda_error_metrics \o function_name \o Txt_json,
                           Txt_lambda_logs \o function_name \o Txt_txt >>]

\* for function_name in functions: ...
RECURSIVE LambdaLoop(_, _)
LambdaLoop(functions, incidents) ==
    IF functions = <<>> THEN Ok(incidents)
    ELSE LET function_name == Head(functions)
             e == get_lambda_error_metrics(function_name)
         IN IF e.raised THEN e
            ELSE IF lambda_no_error_metrics(e.value) THEN LambdaLoop(Tail(functions), incidents)
            ELSE IF LambdaTriggers(e.value)
                 THEN LET d == get_lambda_duration_metrics(function_name)
                      IN IF d.raised THEN d
                         ELSE LambdaLoop(Tail(functions),
                                  Append(incidents,
                                         LambdaIncident(function_name, e.value, d.value)))
                 ELSE LambdaLoop(Tail(functions), incidents)

LambdaErrorDetector_detect ==
    LET r == get_all_lambda_functions
    IN IF r.raised THEN r ELSE LambdaLoop(r.value, <<>>)

----------------------------------------------------------------------------
(* BedrockTokenUsageDetector *)

\* a / b of Python: the exact quotient, or ZeroDivisionError
Divide(a, b) == IF b = 0 THEN Raise("ZeroDivisionError") ELSE Ok([num |-> a, den |-> b])

\* Mutant: the division is not guarded
avg_tokens_per_call_unguarded(total_tokens, total_invocations) ==
    Divide(total_tokens, total_invocations)

\* total_tokens / total_invocations if total_invocations > 0 else 0
avg_tokens_per_call(total_tokens, total_invocations) ==
    IF total_invocations > 0 THEN Divide(total_tokens, total_invocations)
    ELSE Ok([num |-> 0, den |-> 1])

\* if not token_metrics: continue
bedrock_no_token_metrics(token_metrics) == token_metrics = <<>>

BedrockTriggers(token_metrics) ==
    SumOf(token_metrics, "Sum", 0) >= settings.bedrock_token_threshold

BedrockId(model_id) ==
    Slug_bedrock \o <<"-">> \o Replace(Replace(model_id, ":", "-"), ".", "-")

BedrockIncident(model_id, token_metrics, invocation_metrics, avg) ==
    [id             |-> BedrockId(model_id),
     title          |-> Txt_title_bedrock \o model_id,
     severity       |-> "HIGH",
     resource       |-> Txt_model \o model_id,
     description    |-> [rule                |-> "bedrock",
                         name                |-> model_id,
                         total_tokens        |-> SumOf(token_metrics, "Sum", 0),
                         minutes             |-> settings.bedrock_token_window_minutes,
                         total_invocations   |-> SumOf(invocation_metrics, "Sum", 0),
                         avg_tokens_per_call |-> avg],
     suggested_fix  |-> "bedrock: api calls, retries, caching, prompts, alarms",
     evidence_files |-> << Txt_bedrock_token_metrics \o Replace(model_id, ":", "-")
                               \o Txt_json,
                           Txt_bedrock_invocation_metrics \o Replace(model_id, ":", "-")
                               \o Txt_json >>]

\* for model_id in model_ids: ...
RECURSIVE BedrockLoop(_, _)
BedrockLoop(models, incidents) ==
    IF models = <<>> THEN Ok(incidents)
    ELSE LET model_id == Head(models)
             t == get_bedrock_input_tokens(model_id)
         IN IF t.raised THEN t
            ELSE IF bedrock_no_token_metrics(t.value) THEN BedrockLoop(Tail(models), incidents)
            ELSE IF BedrockTriggers(t.value)
                 THEN LET n == get_bedrock_invocation_metrics(model_id)
                      IN IF n.raised THEN n
                         ELSE LET avg == avg_tokens_per_call(
                                             SumOf(t.value, "Sum", 0),
                                             SumOf(n.value, "Sum", 0))
                              IN IF avg.raised THEN avg
                                 ELSE BedrockLoop(Tail(models),
                                          Append(incidents,
                                                 BedrockIncident(model_id, t.value,
                                                                 n.value, avg.value)))
                 ELSE BedrockLoop(Tail(models), incidents)

BedrockTokenUsageDetector_detect == BedrockLoop(model_ids, <<>>)

----------------------------------------------------------------------------
(* S3AccessDeniedDetector *)

\* [:50] of the id and [:30] of the evidence file name
S3IdMaxLen == 50
S3EvidenceNameMaxLen == 30

\* resource.get("ResourceName", "unknown") for each resource of the event
ResourceNamesOf(event) ==
    [j \in 1..Len(event.resources) |->
        Get(event.resources[j], "ResourceName", Txt_unknown)]

\* The appends of the grouping loop, in order: one per event and resource entry
GroupingAppends(events) ==
    Flatten([i \in 1..Len(events) |->
        [j \in 1..Len(events[i].resources) |->
            [resource_name |-> ResourceNamesOf(events[i])[j], event |-> events[i]]]])

\* keys of resource_errors in insertion order
RECURSIVE FirstOccurrences(_, _)
FirstOccurrences(appends, seen) ==
    IF appends = <<>> THEN <<>>
    ELSE IF Head(appends).resource_name \in seen
         THEN FirstOccurrences(Tail(appends), seen)
         ELSE <<Head(appends).resource_name>>
              \o FirstOccurrences(Tail(appends), seen \cup {Head(appends).resource_name})

\* resource_errors[resource_name]
EventsOfResource(appends, resource_name) ==
    LET mine == SelectSeq(appends, LAMBDA a : a.resource_name = resource_name)
    IN [k \in 1..Len(mine) |-> mine[k].event]

\* set(e.get("username", "unknown") for e in events)
UsernamesOf(events) == {Get(events[k], "username", "unknown") : k \in 1..Len(events)}

\* ', '.join(usernames): the members in the set's iteration order, which
\* join_order fixes; str.join raises TypeError on a member that is no str
JoinUsernames(usernames, join_order) ==
    IF NoneValue \in usernames THEN Raise("TypeError")
    ELSE Ok(SelectSeq(join_order, LAMBDA u : u \in usernames))

\* Mutant: no [:50]
S3Id_untruncated(resource_name) ==
    Slug_s3 \o <<"-">> \o Replace(Replace(resource_name, ":", "-"), "/", "-")

S3Id(resource_name) ==
    Slug_s3 \o <<"-">>
        \o Take(Replace(Replace(resource_name, ":", "-"), "/", "-"), S3IdMaxLen)

S3Incident(resource_name, events, joined) ==
    [id             |-> S3Id(resource_name),
     title          |-> Txt_title_s3 \o resource_name,
     severity       |-> "HIGH",
     resource       |-> resource_name,
     description    |-> [rule           |-> "s3",
                         name           |-> resource_name,
                         event_count    |-> Len(events),
                         minutes        |-> settings.lookback_minutes,
                         affected_users |-> joined],
     suggested_fix  |-> "s3: bucket policy, iam permissions, acls, account",
     evidence_files |-> << Txt_cloudtrail_s3
                               \o Take(Replace(resource_name, ":", "-"),
                                       S3EvidenceNameMaxLen)
                               \o Txt_json,
                           Txt_s3_bucket_policy
                               \o BeforeFirst(AfterLast(resource_name, Txt_arn_sep), "/")
                               \o Txt_json >>]

\* for resource_name, events in resource_errors.items(): ...
RECURSIVE S3Loop(_, _, _, _)
S3Loop(keys, appends, join_order, incidents) ==
    IF keys = <<>> THEN Ok(incidents)
    ELSE LET resource_name == Head(keys)
             events == EventsOfResource(appends, resource_name)
         IN IF Len(events) >= 1
            THEN LET joined == JoinUsernames(UsernamesOf(events), join_order)
                 IN IF joined.raised THEN joined
                    ELSE S3Loop(Tail(keys), appends, join_order,
                                Append(incidents,
                                       S3Incident(resource_name, events, joined.value)))
            ELSE S3Loop(Tail(keys), appends, join_order, incidents)

S3AccessDeniedDetector_detect(join_order) ==
    LET r == get_s3_access_denied_events
    IN IF r.raised THEN r
       ELSE LET appends == GroupingAppends(r.value)
            IN S3Loop(FirstOccurrences(appends, {}), appends, join_order, <<>>)

----------------------------------------------------------------------------
(* DynamoDBThrottleDetector *)

\* Mutant: the detector lists what the account holds before it returns
DynamoDBThrottleDetector_detect_listing ==
    LET r == get_all_ec2_instances IN IF r.raised THEN r ELSE Ok(<<>>)

DynamoDBThrottleDetector_detect == Ok(<<>>)
----------------------------------------------------------------------------
(* EvidenceCollector: copilot/evidence.py *)

Txt_incident_json == <<"i", "n", "c", "i", "d", "e", "n", "t", ".", "j", "s", "o", "n">>
Txt_lambda_duration_metrics == <<"l", "a", "m", "b", "d", "a", "-", "d", "u", "r", "a", "t", "i", "o", "n", "-", "m", "e", "t", "r", "i", "c", "s", "-">>
Txt_evidence_output_dir == <<".", "/", "e", "v", "i", "d", "e", "n", "c", "e">>

\* s.replace(old, "") for a text old
RECURSIVE RemoveAll(_, _)
RemoveAll(s, old) ==
    IF s = <<>> THEN <<>>
    ELSE IF StartsWithAt(s, 1, old) THEN RemoveAll(SubSeq(s, Len(old) + 1, Len(s)), old)
    ELSE <<Head(s)>> \o RemoveAll(Tail(s), old)

\* The components of a path text: pathlib drops "." and empty components
RECURSIVE PathParts(_)
PathParts(s) ==
    IF s = <<>> THEN <<>>
    ELSE LET first == BeforeFirst(s, "/")
             rest  == SubSeq(s, Len(first) + 2, Len(s))
         IN IF first = <<>> \/ first = <<".">> THEN PathParts(rest)
            ELSE <<first>> \o PathParts(rest)

\* Path(self.output_dir), as its sequence of components
output_dir == PathParts(Txt_evidence_output_dir)

\* path / name
PathJoin(path, name) == path \o PathParts(name)

\* r.get("ResourceName") of a resource entry that has no name
NoneName == <<NoneValue>>

\* What a call has done so far: the evidence dict it is building (in insertion
\* order), the files it has written, the source calls it has made, and
\* whether it has raised
NoEffect == [raised |-> FALSE, error |-> "", evidence |-> <<>>, writes |-> <<>>, calls |-> <<>>]

\* d[key] = path on a dict kept in insertion order
DictSet(d, key, path) ==
    IF \E i \in 1..Len(d) : d[i].key = key
    THEN [i \in 1..Len(d) |-> IF d[i].key = key THEN [key |-> key, path |-> path] ELSE d[i]]
    ELSE Append(d, [key |-> key, path |-> path])

\* metrics = self.cloudwatch.<method>(...): r is what the source method does
Fetch(e, method, arg, r) ==
    IF e.raised THEN e
    ELSE IF r.raised
         THEN [e EXCEPT !.raised = TRUE, !.error = r.error,
                        !.calls = Append(@, [method |-> method, arg |-> arg])]
         ELSE [e EXCEPT !.calls = Append(@, [method |-> method, arg |-> arg])]

\* with open(dir / name, "w") as f: json.dump(content, f); evidence[name] = str(file)
\* Only dir itself has been made: a name with a "/" in it points into a
\* directory that does not exist, and open raises FileNotFoundError (an OSError)
WriteEvidence(e, dir, name, content) ==
    IF e.raised THEN e
    ELSE IF Len(PathParts(name)) # 1
         THEN [e EXCEPT !.raised = TRUE, !.error = "OSError"]
         ELSE [e EXCEPT !.writes = Append(@, [path |-> PathJoin(dir, name),
                                              content |-> content]),
                        !.evidence = DictSet(@, name, PathJoin(dir, name))]

ValueOf(r) == IF r.raised THEN <<>> ELSE r.value

_collect_ec2_evidence(incident, dir) ==
    LET instance_id == incident.resource
        metrics     == get_ec2_cpu_metrics(instance_id)
        e1 == Fetch(NoEffect, "get_ec2_cpu_metrics", instance_id, metrics)
    IN WriteEvidence(e1, dir, Txt_cloudwatch_metrics \o instance_id \o Txt_json,
                     ValueOf(metrics))

_collect_lambda_evidence(incident, dir) ==
    LET function_name    == RemoveAll(incident.resource, Txt_function)
        error_metrics    == get_lambda_error_metrics(function_name)
        e1 == Fetch(NoEffect, "get_lambda_error_metrics", function_name, error_metrics)
        e2 == WriteEvidence(e1, dir, Txt_lambda_error_metrics \o function_name \o Txt_json,
                            ValueOf(error_metrics))
        duration_metrics == get_lambda_duration_metrics(function_name)
        e3 == Fetch(e2, "get_lambda_duration_metrics", function_name, duration_metrics)
    IN WriteEvidence(e3, dir, Txt_lambda_duration_metrics \o function_name \o Txt_json,
                     ValueOf(duration_metrics))

_collect_bedrock_evidence(incident, dir) ==
    LET model_id      == RemoveAll(incident.resource, Txt_model)
        token_metrics == get_bedrock_input_tokens(model_id)
        e1 == Fetch(NoEffect, "get_bedrock_input_tokens", model_id, token_metrics)
        safe_model_id == Replace(Replace(model_id, ":", "-"), ".", "-")
        e2 == WriteEvidence(e1, dir, Txt_bedrock_token_metrics \o safe_model_id \o Txt_json,
                            ValueOf(token_metrics))
        invocation_metrics == get_bedrock_invocation_metrics(model_id)
        e3 == Fetch(e2, "get_bedrock_invocation_metrics", model_id, invocation_metrics)
    IN WriteEvidence(e3, dir,
                     Txt_bedrock_invocation_metrics \o safe_model_id \o Txt_json,
                     ValueOf(invocation_metrics))

\* Mutant: every fetched event is kept
resource_events_all(access_denied_events, resource) == access_denied_events

\* [e for e in access_denied_events
\*    if any(r.get("ResourceName") == incident.resource for r in e.get("resources", []))]
resource_events(access_denied_events, resource) ==
    SelectSeq(access_denied_events,
              LAMBDA e : \E j \in 1..Len(e.resources) :
                             Get(e.resources[j], "ResourceName", NoneName) = resource)

_collect_s3_evidence(incident, dir) ==
    LET access_denied_events == get_s3_access_denied_events
        e1 == Fetch(NoEffect, "get_s3_access_denied_events", <<>>, access_denied_events)
        safe_resource_name ==
            Take(Replace(Replace(incident.resource, ":", "-"), "/", "-"),
                 S3EvidenceNameMaxLen)
    IN WriteEvidence(e1, dir, Txt_cloudtrail_s3 \o safe_resource_name \o Txt_json,
                     resource_events(ValueOf(access_denied_events), incident.resource))

\* Mutant: the branch is chosen by the start of the id
EvidenceBranch_prefix(id) ==
    IF StartsWithAt(id, 1, Slug_ec2) THEN "ec2"
    ELSE IF StartsWithAt(id, 1, Slug_lambda) THEN "lambda"
    ELSE IF StartsWithAt(id, 1, Slug_bedrock) THEN "bedrock"
    ELSE IF StartsWithAt(id, 1, Slug_s3) THEN "s3"
    ELSE "none"

\* Mutant: an id that no rule matches falls into the last branch
EvidenceBranch_default_s3(id) ==
    IF Contains(id, Slug_ec2) THEN "ec2"
    ELSE IF Contains(id, Slug_lambda) THEN "lambda"
    ELSE IF Contains(id, Slug_bedrock) THEN "bedrock"
    ELSE "s3"

\* if "ec2-cpu-spike" in incident.id: ... elif "lambda-errors" in incident.id: ...
EvidenceBranch(id) ==
    IF Contains(id, Slug_ec2) THEN "ec2"
    ELSE IF Contains(id, Slug_lambda) THEN "lambda"
    ELSE IF Contains(id, Slug_bedrock) THEN "bedrock"
    ELSE IF Contains(id, Slug_s3) THEN "s3"
    ELSE "none"

\* Mutant: one directory for all incidents
incident_dir_shared(incident) == PathJoin(output_dir, <<"i", "n", "c", "i", "d", "e", "n", "t">>)

\* Mutant: the rule's files are written into the evidence root
incident_dir_root(incident) == output_dir

\* incident_dir = Path(self.output_dir) / incident.id
incident_dir(incident) == PathJoin(output_dir, incident.id)

\* The rule-specific part of collect_for_incident
RuleEvidence(incident) ==
    LET branch == EvidenceBranch(incident.id)
        dir    == incident_dir(incident)
    IN CASE branch = "ec2"     -> _collect_ec2_evidence(incident, dir)
         [] branch = "lambda"  -> _collect_lambda_evidence(incident, dir)
         [] branch = "bedrock" -> _collect_bedrock_evidence(incident, dir)
         [] branch = "s3"      -> _collect_s3_evidence(incident, dir)
         [] OTHER              -> NoEffect

\* incident_dir.mkdir(parents=True, exist_ok=True) fails on a directory the
\* disk refuses; otherwise the rule's branch runs and incident.json is
\* written last
collect_for_incident(incident) ==
    IF incident.id \in disk.unwritable
    THEN [NoEffect EXCEPT !.raised = TRUE, !.error = "OSError"]
    ELSE WriteEvidence(RuleEvidence(incident), incident_dir(incident),
                       Txt_incident_json, incident)

\* The paths of the files on disk
Paths(files) == {f.path : f \in files}

\* open(path, "w") of every file the call wrote for incident id: the file is
\* created, or the one that is there is truncated and rewritten
Written(files, writes, id) ==
    LET paths == {writes[i].path : i \in 1..Len(writes)}
    IN {f \in files : f.path \notin paths} \cup {[path |-> p, id |-> id] : p \in paths}

Txt_tar_gz == <<".", "t", "a", "r", ".", "g", "z">>

\* The run takes place within ten seconds of one minute
Txt_timestamp == <<"2", "0", "2", "4", "0", "1", "0", "1", "_", "1", "2", "0", "0", "0">>
DecimalDigit(n) == <<"0", "1", "2", "3", "4", "5", "6", "7", "8", "9">>[n + 1]

\* datetime.now().strftime("%Y%m%d_%H%M%S") at second now of the run
strftime(now) == Txt_timestamp \o <<DecimalDigit(now)>>

\* tarball_path = Path(self.output_dir) / f"{incident.id}_{timestamp}.tar.gz"
tarball_path(incident, now) ==
    PathJoin(output_dir, incident.id \o <<"_">> \o strftime(now) \o Txt_tar_gz)

----------------------------------------------------------------------------
(* Incident as JSON: copilot/incidents, json.dump(incident.model_dump()) of   *)
(* evidence.py and Incident.model_validate_json of sources/mock.py            *)

Key_id == <<"i", "d">>
Key_title == <<"t", "i", "t", "l", "e">>
Key_severity == <<"s", "e", "v", "e", "r", "i", "t", "y">>
Key_resource == <<"r", "e", "s", "o", "u", "r", "c", "e">>
Key_description == <<"d", "e", "s", "c", "r", "i", "p", "t", "i", "o", "n">>
Key_suggested_fix == <<"s", "u", "g", "g", "e", "s", "t", "e", "d", "_", "f", "i", "x">>
Key_evidence_files == <<"e", "v", "i", "d", "e", "n", "c", "e", "_", "f", "i", "l", "e", "s">>

\* A JSON value of the kinds an Incident holds: a string or an array of strings
JsonStr(s) == [kind |-> "str", str |-> s, items |-> <<>>]
JsonList(l) == [kind |-> "list", str |-> <<>>, items |-> l]

\* incident.model_dump(): the seven fields, in the order the class declares them
model_dump(incident) ==
    << [key |-> Key_id,             value |-> JsonStr(incident.id)],
       [key |-> Key_title,          value |-> JsonStr(incident.title)],
       [key |-> Key_severity,       value |-> JsonStr(incident.severity)],
       [key |-> Key_resource,       value |-> JsonStr(incident.resource)],
       [key |-> Key_description,    value |-> JsonStr(incident.description)],
       [key |-> Key_suggested_fix,  value |-> JsonStr(incident.suggested_fix)],
       [key |-> Key_evidence_files, value |-> JsonList(incident.evidence_files)] >>

\* Mutant: strings are written as they are
EscapeChar_raw(c) == <<c>>

\* json encodes a quote, a backslash and a line feed inside a string
EscapeChar(c) ==
    CASE c = "\"" -> <<"\\", "\"">>
      [] c = "\\" -> <<"\\", "\\">>
      [] c = "\n" -> <<"\\", "n">>
      [] OTHER    -> <<c>>

Quoted(s) == <<"\"">> \o Flatten([i \in 1..Len(s) |-> EscapeChar(s[i])]) \o <<"\"">>

\* indent=2: a line feed and two spaces per level
Indent(depth) == <<"\n">> \o [i \in 1..(2 * depth) |-> " "]

RECURSIVE JoinWith(_, _)
JoinWith(parts, sep) ==
    IF parts = <<>> THEN <<>>
    ELSE IF Len(parts) = 1 THEN Head(parts)
    ELSE Head(parts) \o sep \o JoinWith(Tail(parts), sep)

DumpValue(v, depth) ==
    IF v.kind = "str" THEN Quoted(v.str)
    ELSE IF v.items = <<>> THEN <<"[", "]">>
    ELSE <<"[">> \o Indent(depth + 1)
         \o JoinWith([i \in 1..Len(v.items) |-> Quoted(v.items[i])],
                     <<",">> \o Indent(depth + 1))
         \o Indent(depth) \o <<"]">>

\* json.dump(d, f, indent=2, default=str) of a dict d, as the text written
json_dump(d) ==
    IF d = <<>> THEN <<"{", "}">>
    ELSE <<"{">> \o Indent(1)
         \o JoinWith([i \in 1..Len(d) |->
                         Quoted(d[i].key) \o <<":", " ">> \o DumpValue(d[i].value, 1)],
                     <<",">> \o Indent(1))
         \o Indent(0) \o <<"}">>

\* The JSON parser behind model_validate_json
Whitespace == {" ", "\n", "\t", "\r"}
ParseFailed == [ok |-> FALSE, value |-> <<>>, next |-> 0]
Parsed(v, next) == [ok |-> TRUE, value |-> v, next |-> next]

RECURSIVE SkipWs(_, _)
SkipWs(t, i) == IF i <= Len(t) /\ t[i] \in Whitespace THEN SkipWs(t, i + 1) ELSE i

At(t, i, c) == i <= Len(t) /\ t[i] = c

\* The characters of a string, from position i behind its opening quote
RECURSIVE ScanString(_, _, _)
ScanString(t, i, acc) ==
    IF i > Len(t) THEN ParseFailed
    ELSE IF t[i] = "\"" THEN Parsed(acc, i + 1)
    ELSE IF t[i] = "\\"
         THEN IF i + 1 > Len(t) THEN ParseFailed
              ELSE IF t[i + 1] \in {"\"", "\\", "/"}
                   THEN ScanString(t, i + 2, Append(acc, t[i + 1]))
              ELSE IF t[i + 1] = "n" THEN ScanString(t, i + 2, Append(acc, "\n"))
              ELSE ParseFailed
    ELSE IF t[i] = "\n" THEN ParseFailed
    ELSE ScanString(t, i + 1, Append(acc, t[i]))

ParseString(t, i) == IF At(t, i, "\"") THEN ScanString(t, i + 1, <<>>) ELSE ParseFailed

\* The elements of an array of strings, from position i where one is due
RECURSIVE ScanArray(_, _, _)
ScanArray(t, i, acc) ==
    LET s == ParseString(t, SkipWs(t, i))
        j == SkipWs(t, s.next)
    IN IF ~s.ok THEN ParseFailed
       ELSE IF At(t, j, ",") THEN ScanArray(t, j + 1, Append(acc, s.value))
       ELSE IF At(t, j, "]") THEN Parsed(Append(acc, s.value), j + 1)
       ELSE ParseFailed

ParseValue(t, i) ==
    IF At(t, i, "\"")
    THEN LET s == ParseString(t, i)
         IN IF s.ok THEN Parsed(JsonStr(s.value), s.next) ELSE ParseFailed
    ELSE IF At(t, i, "[")
    THEN LET j == SkipWs(t, i + 1)
             a == IF At(t, j, "]") THEN Parsed(<<>>, j + 1) ELSE ScanArray(t, j, <<>>)
         IN IF a.ok THEN Parsed(JsonList(a.value), a.next) ELSE ParseFailed
    ELSE ParseFailed

\* The members of an object, from position i where a key is due
RECURSIVE ScanMembers(_, _, _)
ScanMembers(t, i, acc) ==
    LET k == ParseString(t, SkipWs(t, i))
        c == SkipWs(t, k.next)
        v == ParseValue(t, SkipWs(t, c + 1))
        j == SkipWs(t, v.next)
        members == Append(acc, [key |-> k.value, value |-> v.value])
    IN IF ~k.ok \/ ~At(t, c, ":") THEN ParseFailed
       ELSE IF ~v.ok THEN ParseFailed
       ELSE IF At(t, j, ",") THEN ScanMembers(t, j + 1, members)
       ELSE IF At(t, j, "}") THEN Parsed(members, j + 1)
       ELSE ParseFailed

\* A whole text that holds one object and nothing else
ParseObject(t) ==
    LET i == SkipWs(t, 1)
        j == SkipWs(t, i + 1)
        o == IF At(t, j, "}") THEN Parsed(<<>>, j + 1) ELSE ScanMembers(t, j, <<>>)
    IN IF ~At(t, i, "{") \/ ~o.ok THEN ParseFailed
       ELSE IF SkipWs(t, o.next) <= Len(t) THEN ParseFailed
       ELSE o

\* The value the object gives a key (the last one, if the key is repeated)
HasKey(members, key) == \E i \in 1..Len(members) : members[i].key = key
Member(members, key) ==
    members[CHOOSE i \in 1..Len(members) :
                /\ members[i].key = key
                /\ \A j \in (i + 1)..Len(members) : members[j].key # key].value

\* Incident(**data): six required strings, and evidence_files: List[str] = []
model_validate(members) ==
    LET required == {Key_id, Key_title, Key_severity, Key_resource, Key_description,
                     Key_suggested_fix}
    IN IF \E key \in required :
              ~HasKey(members, key) \/ Member(members, key).kind # "str"
       THEN Raise("ValidationError")
       ELSE IF HasKey(members, Key_evidence_files)
               /\ Member(members, Key_evidence_files).kind # "list"
       THEN Raise("ValidationError")
       ELSE Ok([id             |-> Member(members, Key_id).str,
                title          |-> Member(members, Key_title).str,
                severity       |-> Member(members, Key_severity).str,
                resource       |-> Member(members, Key_resource).str,
                description    |-> Member(members, Key_description).str,
                suggested_fix  |-> Member(members, Key_suggested_fix).str,
                evidence_files |-> IF HasKey(members, Key_evidence_files)
                                   THEN Member(members, Key_evidence_files).items
                                   ELSE <<>>])

\* Incident.model_validate_json(path.read_text())
model_validate_json(text) ==
    LET o == ParseObject(text)
    IN IF o.ok THEN model_validate(o.value) ELSE Raise("ValidationError")

----------------------------------------------------------------------------
(* run_all_detectors and the monitor command *)

roster == <<"EC2CPUSpikeDetector", "LambdaErrorDetector", "BedrockTokenUsageDetector",
            "S3AccessDeniedDetector", "DynamoDBThrottleDetector">>

\* Mutant: the handler catches the sources' two error classes only
ExceptionCaught_ClientErrorsOnly(error) == error \in {"ClientError", "NoCredentialsError"}

\* except Exception as e: every error class of this model derives from Exception
ExceptionCaught(error) ==
    error \in {"ClientError", "NoCredentialsError", "EndpointConnectionError",
               "TypeError", "ZeroDivisionError", "JSONDecodeError"}

NoScan == <<[no_scan |-> TRUE]>>
NoAlert == <<[no_alert |-> TRUE]>>
NoReply == [call |-> "none"]

\* Bounds of the model
MaxScans == 2
MaxSeriesLen == 3
MaxDurationLen == 1
MaxEvents == 2
MaxFaults == 2
MaxEntries == 2
MaxClock == 1

\* What the monitor command never writes
environment == <<settings, cloud, faults, options, sigint>>

\* scan_for_incidents() of monitor: run_all_detectors starts with an empty list.
\* In continuous mode the loop calls it again after the sleep.
scan_for_incidents ==
    /\ options.command = "monitor"
    /\ pc \in {"idle", "sleeping"}
    /\ scan_no < MaxScans
    /\ prev_incidents' = IF pc = "sleeping" THEN all_incidents ELSE prev_incidents
    /\ pc' = "running"
    /\ idx' = 1
    /\ all_incidents' = <<>>
    /\ returned' = <<>>
    /\ collected' = <<>>
    /\ alerted' = NoAlert
    /\ scan_no' = scan_no + 1
    /\ UNCHANGED <<environment, disk, pending, reply>>

\* One pass of "for detector in detectors: try: ... except Exception".
DetectorStep(name, r) ==
    /\ pc = "running"
    /\ idx <= Len(roster)
    /\ roster[idx] = name
    /\ returned' = Append(returned, [detector |-> name, result |-> r])
    /\ IF ~r.raised
       THEN /\ all_incidents' = all_incidents \o r.value
            /\ idx' = idx + 1
            /\ pc' = pc
       ELSE IF ExceptionCaught(r.error)
            THEN /\ idx' = idx + 1
                 /\ UNCHANGED <<all_incidents, pc>>
            ELSE /\ pc' = "raised"
                 /\ UNCHANGED <<all_incidents, idx>>
    /\ UNCHANGED <<environment, disk, collected, alerted, pending, scan_no, prev_incidents, reply>>

RunEC2 == DetectorStep("EC2CPUSpikeDetector", EC2CPUSpikeDetector_detect)

RunLambda == DetectorStep("LambdaErrorDetector", LambdaErrorDetector_detect)

RunBedrock == DetectorStep("BedrockTokenUsageDetector", BedrockTokenUsageDetector_detect)

\* The usernames the fetched events name, and the orders a set of them can
\* be iterated in
FetchedUsernames ==
    LET r == get_s3_access_denied_events
    IN IF r.raised THEN {}
       ELSE {r.value[i].username : i \in 1..Len(r.value)} \ {NoneValue}

Orders(S) == {o \in [1..Cardinality(S) -> S] : \A u \in S : \E i \in DOMAIN o : o[i] = u}

RunS3 ==
    \E join_order \in Orders(FetchedUsernames) :
        DetectorStep("S3AccessDeniedDetector", S3AccessDeniedDetector_detect(join_order))

RunDynamoDB == DetectorStep("DynamoDBThrottleDetector", DynamoDBThrottleDetector_detect)

\* return all_incidents
ReturnAll ==
    /\ pc = "running"
    /\ idx = Len(roster) + 1
    /\ pc' = "done"
    /\ UNCHANGED <<environment, disk, idx, all_incidents, returned, collected, alerted,
                   pending, scan_no, prev_incidents, reply>>


----------------------------------------------------------------------------
(* scan_for_incidents after detection, the monitor loop and Ctrl+C *)

\* Mutant: the evidence loop has no handler
EvidenceFailureCaught_none(error) == FALSE

\* except Exception as e, around collect_for_incident
EvidenceFailureCaught(error) ==
    error \in {"OSError", "ClientError", "NoCredentialsError", "EndpointConnectionError",
               "TypeError"}

\* What scan_for_incidents reports once detection is over: the list that
\* run_all_detectors returned and the line or table printed for it
scan_outcome ==
    [incidents |-> all_incidents,
     printed   |-> IF all_incidents = <<>> THEN "No incidents detected"
                   ELSE "Active Incidents"]

\* if not incidents: print "No incidents detected"; return
NoIncidentsDetected ==
    /\ options.command = "monitor"
    /\ pc = "done"
    /\ all_incidents = <<>>
    /\ pc' = "scanned"
    /\ UNCHANGED <<environment, disk, idx, all_incidents, returned, collected, alerted,
                   pending, scan_no, prev_incidents, reply>>

\* One pass of "for incident in incidents: try: collect_for_incident(incident)"
CollectEvidence ==
    /\ options.command = "monitor"
    /\ pc \in {"done", "collecting"}
    /\ all_incidents # <<>>
    /\ options.collect_evidence
    /\ Len(collected) < Len(all_incidents)
    /\ LET incident == all_incidents[Len(collected) + 1]
           r        == collect_for_incident(incident)
       IN /\ collected' = Append(collected, [incident |-> incident, result |-> r])
          /\ disk' = [disk EXCEPT !.files = Written(@, r.writes, incident.id)]
          /\ pc' = IF r.raised /\ ~EvidenceFailureCaught(r.error)
                   THEN "crashed" ELSE "collecting"
    /\ UNCHANGED <<environment, idx, all_incidents, returned, alerted, pending,
                   scan_no, prev_incidents, reply>>

\* Mutant: alerting does not wait for the evidence loop
EvidenceOver_always == TRUE

\* The evidence loop is over, or was never entered
EvidenceOver == ~options.collect_evidence \/ Len(collected) = Len(all_incidents)

\* [i for i in incidents if i.severity in ["HIGH", "CRITICAL"]]
high_critical(incidents) == SelectSeq(incidents, LAMBDA i : i.severity \in {"HIGH", "CRITICAL"})

\* if enable_alerts and alert_manager: alert_manager.alert_on_incidents(incidents, ...)
SendAlerts ==
    /\ options.command = "monitor"
    /\ pc \in {"done", "collecting"}
    /\ all_incidents # <<>>
    /\ EvidenceOver
    /\ options.enable_alerts
    /\ alerted' = all_incidents
    /\ pc' = "scanned"
    /\ UNCHANGED <<environment, disk, idx, all_incidents, returned, collected, pending,
                   scan_no, prev_incidents, reply>>

\* scan_for_incidents returns with alerting disabled
ScanReturns ==
    /\ options.command = "monitor"
    /\ pc \in {"done", "collecting"}
    /\ all_incidents # <<>>
    /\ EvidenceOver
    /\ ~options.enable_alerts
    /\ pc' = "scanned"
    /\ UNCHANGED <<environment, disk, idx, all_incidents, returned, collected, alerted,
                   pending, scan_no, prev_incidents, reply>>

\* while True: scan_for_incidents(); time.sleep(settings.poll_interval_seconds)
Sleep ==
    /\ pc = "scanned"
    /\ options.continuous
    /\ pc' = "sleeping"
    /\ UNCHANGED <<environment, disk, idx, all_incidents, returned, collected, alerted,
                   pending, scan_no, prev_incidents, reply>>

\* else: scan_for_incidents(), and monitor returns
MonitorReturns ==
    /\ pc = "scanned"
    /\ ~options.continuous
    /\ pc' = "exited"
    /\ UNCHANGED <<environment, disk, idx, all_incidents, returned, collected, alerted,
                   pending, scan_no, prev_incidents, reply>>

\* The positions inside the try block of monitor
InMonitor == {"running", "done", "collecting", "scanned", "sleeping"}

\* The positions inside scan_for_incidents
InScan == {"running", "done", "collecting"}

\* Mutant: the interrupt is looked at between iterations only
KeyboardInterrupt_between ==
    /\ sigint = "armed"
    /\ pc \in {"scanned", "sleeping"}
    /\ pc' = "stopped"
    /\ UNCHANGED <<environment, disk, idx, all_incidents, returned, collected, alerted,
                   pending, scan_no, prev_incidents, reply>>

\* Ctrl+C: Python raises KeyboardInterrupt in the main thread wherever it is.
\* KeyboardInterrupt is no Exception, so neither run_all_detectors' handler
\* nor the evidence loop's catches it; monitor's "except KeyboardInterrupt"
\* does, and monitoring stops.
KeyboardInterrupt ==
    /\ sigint = "armed"
    /\ pc \in InMonitor
    /\ pc' = "stopped"
    /\ UNCHANGED <<environment, disk, idx, all_incidents, returned, collected, alerted,
                   pending, scan_no, prev_incidents, reply>>

----------------------------------------------------------------------------
(* Calls of the collector outside a scan *)

Txt_id_dynamodb == <<"d", "y", "n", "a", "m", "o", "d", "b", "-", "t", "h", "r", "o", "t", "t", "l", "e", "-", "T">>
Txt_id_upper == <<"E", "C", "2", "-", "C", "P", "U", "-", "S", "P", "I", "K", "E", "-", "i", "-", "X">>
Txt_table == <<"t", "a", "b", "l", "e", ":", "T">>

\* Texts that need care in JSON
SampleTexts ==
    {<<>>, <<"a">>, <<"\"">>, <<"\\">>, <<"a", "\"", "b">>, <<"\\", "\"">>, <<"\\", "n">>,
     <<"\n">>, <<"]">>, <<",", " ">>, <<"{", "}">>, <<"[", "\"", "a", "\"", "]">>}

\* Incidents that no detector of the roster produces
ForeignIncidents ==
    {[id |-> Txt_id_dynamodb, title |-> <<"D", "y", "n", "a", "m", "o", "D", "B", " ", "T", "h", "r", "o", "t", "t", "l", "i", "n", "g">>, severity |-> <<"M", "E", "D", "I", "U", "M">>,
      resource |-> Txt_table, description |-> <<"t", "h", "r", "o", "t", "t", "l", "e", "d">>,
      suggested_fix |-> <<>>, evidence_files |-> <<>>],
     [id |-> Txt_id_upper, title |-> <<"E", "C", "2">>, severity |-> <<"L", "O", "W">>,
      resource |-> <<"i", "-", "X">>, description |-> <<"u", "p">>, suggested_fix |-> <<>>,
      evidence_files |-> <<>>]}

\* Incidents whose texts and lists put the JSON form to the test
SampleIncidents ==
    {[id |-> Txt_id_dynamodb, title |-> <<"T">>, severity |-> <<"M", "E", "D", "I", "U", "M">>,
      resource |-> Txt_table, description |-> text, suggested_fix |-> <<>>,
      evidence_files |-> files] :
        text \in SampleTexts, files \in {<<>>, <<Txt_incident_json>>, <<<<>>, <<"\"">>>>}}
    \cup
    {[id |-> text, title |-> <<>>, severity |-> <<"L", "O", "W">>,
      resource |-> <<"i", "-", "X">>, description |-> <<"u", "p">>, suggested_fix |-> text,
      evidence_files |-> <<text, Txt_json>>] : text \in SampleTexts}

\* evidence_collector.collect_for_incident(incident), called by hand
CollectForIncident ==
    /\ options.command = "collector"
    /\ pc = "idle"
    /\ \E incident \in ForeignIncidents :
           LET r == collect_for_incident(incident)
           IN /\ collected' = <<[incident |-> incident, result |-> r]>>
              /\ disk' = [disk EXCEPT !.files = Written(@, r.writes, incident.id)]
    /\ UNCHANGED <<environment, pc, idx, all_incidents, returned, alerted, pending,
                   scan_no, prev_incidents, reply>>

\* evidence_collector.package_evidence(incident), called by hand at second now:
\* collect_for_incident first, then tarfile.open(tarball_path, "w:gz") creates
\* the archive or truncates the one of that name. The clock does not run
\* backwards: now is no earlier than the newest archive on disk.
package_evidence ==
    /\ options.command = "collector"
    /\ pc = "idle"
    /\ \E incident \in ForeignIncidents, now \in 0..MaxClock :
           LET r       == collect_for_incident(incident)
               tarball == IF r.raised THEN <<>>
                          ELSE <<[path |-> tarball_path(incident, now),
                                  content |-> r.writes]>>
           IN /\ \A t \in 0..MaxClock, i \in ForeignIncidents :
                     tarball_path(i, t) \in Paths(disk.files) => t <= now
              /\ collected' = <<[incident |-> incident, result |-> r,
                                 tarball |-> tarball]>>
              /\ disk' = [disk EXCEPT !.files = Written(@, r.writes \o tarball, incident.id)]
    /\ UNCHANGED <<environment, pc, idx, all_incidents, returned, alerted, pending,
                   scan_no, prev_incidents, reply>>

\* load_incident(slug) of a file that holds what json.dump wrote for
\* incident.model_dump(): Incident.model_validate_json(path.read_text())
load_incident ==
    /\ options.command = "loader"
    /\ pc = "idle"
    /\ \E incident \in SampleIncidents \cup ForeignIncidents :
           LET text == json_dump(model_dump(incident))
           IN reply' = [call |-> "load_incident", text |-> text,
                        result |-> model_validate_json(text)]
    /\ UNCHANGED <<environment, disk, pc, idx, all_incidents, returned, collected, alerted,
                   pending, scan_no, prev_incidents>>

\* max_age_seconds = settings.max_evidence_age_days * 24 * 60 * 60
max_age_seconds == settings.max_evidence_age_days * 24 * 60 * 60

\* current_time - item.stat().st_mtime > max_age_seconds
Expired(item) == item.age > max_age_seconds

\* cleanup_old_evidence is entered: the root exists since __init__ made it,
\* and iterdir() will yield its entries
cleanup_old_evidence ==
    /\ options.command = "library"
    /\ pc = "idle"
    /\ pc' = "cleaning"
    /\ pending' = disk.entries
    /\ UNCHANGED <<environment, disk, idx, all_incidents, returned, collected, alerted,
                   scan_no, prev_incidents, reply>>

\* Mutant: the age test admits the boundary
Deletes_ge(item) ==
    /\ item.age >= max_age_seconds
    /\ item.is_dir \/ item.suffix = ".gz"

\* The entries the loop body deletes: expired directories (shutil.rmtree) and
\* expired files whose suffix is ".gz" (unlink)
Deletes(item) ==
    /\ Expired(item)
    /\ item.is_dir \/ item.suffix = ".gz"

Without(entries, item) == SelectSeq(entries, LAMBDA e : e.name # item.name)

\* One pass of "for item in evidence_dir.iterdir()"; a deletion the file
\* system refuses raises OSError, which nothing here catches
CleanupStep ==
    /\ pc = "cleaning"
    /\ pending # <<>>
    /\ LET item == Head(pending)
       IN IF Deletes(item) /\ item.locked
          THEN /\ pc' = "crashed"
               /\ UNCHANGED <<disk, pending>>
          ELSE /\ pc' = pc
               /\ pending' = Tail(pending)
               /\ disk' = IF Deletes(item)
                          THEN [disk EXCEPT !.entries = Without(@, item)]
                          ELSE disk
    /\ UNCHANGED <<environment, idx, all_incidents, returned, collected, alerted,
                   scan_no, prev_incidents, reply>>

\* The loop is over and cleanup_old_evidence returns
CleanupReturns ==
    /\ pc = "cleaning"
    /\ pending = <<>>
    /\ pc' = "idle"
    /\ UNCHANGED <<environment, disk, idx, all_incidents, returned, collected, alerted,
                   pending, scan_no, prev_incidents, reply>>

----------------------------------------------------------------------------
(* The scan endpoint: api/scan.py *)

Txt_your_ == <<"y", "o", "u", "r", "_">>
Txt_example == <<"e", "x", "a", "m", "p", "l", "e">>

Msg_not_configured ==
    <<"A", "W", "S", " ", "c", "r", "e", "d", "e", "n", "t", "i", "a", "l", "s", " ", "n",
      "o", "t", " ", "c", "o", "n", "f", "i", "g", "u", "r", "e", "d", ".", " ", "S", "e",
      "t", " ", "A", "W", "S", "_", "A", "C", "C", "E", "S", "S", "_", "K", "E", "Y", "_",
      "I", "D", " ", "a", "n", "d", " ", "A", "W", "S", "_", "S", "E", "C", "R", "E", "T",
      "_", "A", "C", "C", "E", "S", "S", "_", "K", "E", "Y", " ", "e", "n", "v", "i", "r",
      "o", "n", "m", "e", "n", "t", " ", "v", "a", "r", "i", "a", "b", "l", "e", "s", ".">>
Msg_placeholder ==
    <<"A", "W", "S", " ", "c", "r", "e", "d", "e", "n", "t", "i", "a", "l", "s", " ", "a",
      "p", "p", "e", "a", "r", " ", "t", "o", " ", "b", "e", " ", "p", "l", "a", "c", "e",
      "h", "o", "l", "d", "e", "r", " ", "v", "a", "l", "u", "e", "s", ".", " ", "P", "l",
      "e", "a", "s", "e", " ", "u", "s", "e", " ", "r", "e", "a", "l", " ", "c", "r", "e",
      "d", "e", "n", "t", "i", "a", "l", "s", ".">>

\* validate_aws_credentials(): (is_valid, error_message) of the two environment
\* variables; an unset variable reads as the empty text
validate_aws_credentials(access_key, secret_key) ==
    IF access_key = <<>> \/ secret_key = <<>>
    THEN [is_valid |-> FALSE, error_msg |-> Msg_not_configured]
    ELSE IF \/ Contains(Lower(access_key), Txt_your_)
            \/ Contains(Lower(access_key), Txt_example)
         THEN [is_valid |-> FALSE, error_msg |-> Msg_placeholder]
         ELSE [is_valid |-> TRUE, error_msg |-> <<>>]

Msg_check_credentials ==
    <<"A", "n", " ", "e", "r", "r", "o", "r", " ", "o", "c", "c", "u", "r", "r", "e", "d",
      ".", " ", "P", "l", "e", "a", "s", "e", " ", "c", "h", "e", "c", "k", " ", "y", "o",
      "u", "r", " ", "A", "W", "S", " ", "c", "r", "e", "d", "e", "n", "t", "i", "a", "l",
      "s", " ", "a", "n", "d", " ", "p", "e", "r", "m", "i", "s", "s", "i", "o", "n", "s",
      ".">>
Msg_authentication_failed ==
    <<"A", "W", "S", " ", "a", "u", "t", "h", "e", "n", "t", "i", "c", "a", "t", "i", "o",
      "n", " ", "f", "a", "i", "l", "e", "d", ".", " ", "P", "l", "e", "a", "s", "e", " ",
      "v", "e", "r", "i", "f", "y", " ", "y", "o", "u", "r", " ", "c", "r", "e", "d", "e",
      "n", "t", "i", "a", "l", "s", " ", "a", "r", "e", " ", "c", "o", "r", "r", "e", "c",
      "t", ".">>
Msg_access_denied ==
    <<"A", "c", "c", "e", "s", "s", " ", "d", "e", "n", "i", "e", "d", ".", " ", "P", "l",
      "e", "a", "s", "e", " ", "e", "n", "s", "u", "r", "e", " ", "y", "o", "u", "r", " ",
      "I", "A", "M", " ", "u", "s", "e", "r", " ", "h", "a", "s", " ", "C", "l", "o", "u",
      "d", "W", "a", "t", "c", "h", " ", "a", "n", "d", " ", "C", "l", "o", "u", "d", "T",
      "r", "a", "i", "l", " ", "r", "e", "a", "d", " ", "p", "e", "r", "m", "i", "s", "s",
      "i", "o", "n", "s", ".">>
Msg_rate_limit ==
    <<"A", "W", "S", " ", "A", "P", "I", " ", "r", "a", "t", "e", " ", "l", "i", "m", "i",
      "t", " ", "e", "x", "c", "e", "e", "d", "e", "d", ".", " ", "P", "l", "e", "a", "s",
      "e", " ", "w", "a", "i", "t", " ", "a", " ", "f", "e", "w", " ", "m", "i", "n", "u",
      "t", "e", "s", " ", "b", "e", "f", "o", "r", "e", " ", "s", "c", "a", "n", "n", "i",
      "n", "g", " ", "a", "g", "a", "i", "n", ".">>
Msg_unexpected ==
    <<"A", "n", " ", "u", "n", "e", "x", "p", "e", "c", "t", "e", "d", " ", "e", "r", "r",
      "o", "r", " ", "o", "c", "c", "u", "r", "r", "e", "d", " ", "w", "h", "i", "l", "e",
      " ", "s", "c", "a", "n", "n", "i", "n", "g", " ", "A", "W", "S", " ", "r", "e", "s",
      "o", "u", "r", "c", "e", "s", ".">>

Txt_AuthFailure == <<"A", "u", "t", "h", "F", "a", "i", "l", "u", "r", "e">>
Txt_InvalidClientTokenId == <<"I", "n", "v", "a", "l", "i", "d", "C", "l", "i", "e", "n", "t", "T", "o", "k", "e", "n", "I", "d">>
Txt_AccessDenied == <<"A", "c", "c", "e", "s", "s", "D", "e", "n", "i", "e", "d">>
Txt_UnauthorizedOperation == <<"U", "n", "a", "u", "t", "h", "o", "r", "i", "z", "e", "d", "O", "p", "e", "r", "a", "t", "i", "o", "n">>
Txt_RequestLimitExceeded == <<"R", "e", "q", "u", "e", "s", "t", "L", "i", "m", "i", "t", "E", "x", "c", "e", "e", "d", "e", "d">>
Txt_Throttling == <<"T", "h", "r", "o", "t", "t", "l", "i", "n", "g">>

sensitive_patterns ==
    <<<<"A", "K", "I", "A">>,
      <<"a", "w", "s", "_", "s", "e", "c", "r", "e", "t">>,
      <<"p", "a", "s", "s", "w", "o", "r", "d">>,
      <<"t", "o", "k", "e", "n">>>>

\* sanitize_error_message(error, include_details), error_str being str(error)
sanitize_error_message(error_str, include_details) ==
    IF \E k \in 1..Len(sensitive_patterns) :
           Contains(Lower(error_str), Lower(sensitive_patterns[k]))
    THEN Msg_check_credentials
    ELSE IF \/ Contains(error_str, Txt_AuthFailure)
            \/ Contains(error_str, Txt_InvalidClientTokenId)
    THEN Msg_authentication_failed
    ELSE IF \/ Contains(error_str, Txt_AccessDenied)
            \/ Contains(error_str, Txt_UnauthorizedOperation)
    THEN Msg_access_denied
    ELSE IF \/ Contains(error_str, Txt_RequestLimitExceeded)
            \/ Contains(error_str, Txt_Throttling)
    THEN Msg_rate_limit
    ELSE IF include_details THEN error_str
    ELSE Msg_unexpected

\* The texts of the errors the endpoint is given
ErrorTexts ==
    {Txt_AuthFailure,
     Txt_InvalidClientTokenId,
     Txt_AccessDenied,
     Txt_UnauthorizedOperation,
     Txt_RequestLimitExceeded,
     Txt_Throttling,
     <<"A", "u", "t", "h", "F", "a", "i", "l", "u", "r", "e", ":", " ", "k", "e", "y", " ", "A", "K", "I", "A", "X">>,
     <<"A", "c", "c", "e", "s", "s", "D", "e", "n", "i", "e", "d", ":", " ", "b", "a", "d", " ", "P", "a", "s", "s", "w", "o", "r", "d">>,
     <<"T", "h", "r", "o", "t", "t", "l", "i", "n", "g", ":", " ", "R", "a", "t", "e", " ", "e", "x", "c", "e", "e", "d", "e", "d">>,
     <<"E", "x", "p", "i", "r", "e", "d", "T", "o", "k", "e", "n">>,
     <<"t", "i", "m", "e", "d", " ", "o", "u", "t">>,
     <<"U", "n", "a", "u", "t", "h", "o", "r", "i", "z", "e", "d", "O", "p", "e", "r", "a", "t", "i", "o", "n", ":", " ", "n", "o", " ", "a", "w", "s", "_", "s", "e", "c", "r", "e", "t">>}

\* The dict the handler builds of one incident: reading incident.detected_at
\* raises AttributeError on an object that has no such attribute
IncidentEntry(incident) ==
    IF "detected_at" \notin DOMAIN incident
    THEN Raise("AttributeError")
    ELSE Ok([id |-> incident.id, title |-> incident.title,
             severity |-> incident.severity, resource |-> incident.resource,
             description |-> incident.description,
             detected_at |-> incident.detected_at])

\* for incident in incidents: try: incidents_data.append({...})
\*                            except Exception: continue
incidents_data(incidents) ==
    LET kept == SelectSeq(incidents, LAMBDA incident : ~IncidentEntry(incident).raised)
    IN [k \in 1..Len(kept) |-> IncidentEntry(kept[k]).value]

DemoIncident ==
    [id |-> <<"d", "e", "m", "o", "-", "i", "n", "c", "i", "d", "e", "n", "t", "-", "1">>,
     resource |-> <<"i", "-", "d", "e", "m", "o", "1", "2", "3", "4", "5", "6">>]

\* do_GET up to the call of run_all_detectors: the demo response, the
\* credentials response, the response to a source that cannot be built, or
\* the start of the scan
do_GET ==
    /\ options.command = "api"
    /\ pc = "idle"
    /\ LET creds == validate_aws_credentials(options.access_key, options.secret_key)
       IN IF ~options.dependencies_available
          THEN /\ reply' = [call |-> "do_GET", status |-> 200, success |-> TRUE,
                            demo_mode |-> TRUE, incidents |-> <<DemoIncident>>]
               /\ pc' = "responded"
               /\ UNCHANGED <<idx, all_incidents, returned>>
          ELSE IF ~creds.is_valid
          THEN /\ reply' = [call |-> "do_GET", status |-> 200, success |-> FALSE,
                            error |-> creds.error_msg, incidents |-> <<>>]
               /\ pc' = "responded"
               /\ UNCHANGED <<idx, all_incidents, returned>>
          ELSE IF options.source_error # <<>>
          THEN /\ reply' = [call |-> "do_GET", status |-> 500, success |-> FALSE,
                            error |-> sanitize_error_message(options.source_error, FALSE),
                            incidents |-> <<>>]
               /\ pc' = "responded"
               /\ UNCHANGED <<idx, all_incidents, returned>>
          ELSE /\ pc' = "running"
               /\ idx' = 1
               /\ all_incidents' = <<>>
               /\ returned' = <<>>
               /\ UNCHANGED reply
    /\ UNCHANGED <<environment, disk, collected, alerted, pending, scan_no, prev_incidents>>

\* run_all_detectors has returned (it catches every Exception of a detector,
\* so the handler's own except around it is never entered): the incidents are
\* converted and the success response is sent
SendScanResponse ==
    /\ options.command = "api"
    /\ pc = "done"
    /\ reply' = [call |-> "do_GET", status |-> 200, success |-> TRUE,
                 incidents |-> incidents_data(all_incidents),
                 incident_count |-> Len(incidents_data(all_incidents))]
    /\ pc' = "responded"
    /\ UNCHANGED <<environment, disk, idx, all_incidents, returned, collected, alerted,
                   pending, scan_no, prev_incidents>>

\* A direct call of sanitize_error_message
SanitizeErrorMessage ==
    /\ options.command = "developer"
    /\ pc = "idle"
    /\ \E error_str \in ErrorTexts, include_details \in BOOLEAN :
           reply' = [call |-> "sanitize_error_message", error |-> error_str,
                     include_details |-> include_details,
                     result |-> sanitize_error_message(error_str, include_details)]
    /\ UNCHANGED <<environment, disk, pc, idx, all_incidents, returned, collected, alerted,
                   pending, scan_no, prev_incidents>>

Next ==
    \/ scan_for_incidents
    \/ RunEC2
    \/ RunLambda
    \/ RunBedrock
    \/ RunS3
    \/ RunDynamoDB
    \/ ReturnAll
    \/ NoIncidentsDetected
    \/ CollectEvidence
    \/ SendAlerts
    \/ ScanReturns
    \/ Sleep
    \/ MonitorReturns
    \/ KeyboardInterrupt
    \/ CollectForIncident
    \/ package_evidence
    \/ load_incident
    \/ do_GET
    \/ SendScanResponse
    \/ SanitizeErrorMessage
    \/ cleanup_old_evidence
    \/ CleanupStep
    \/ CleanupReturns


----------------------------------------------------------------------------
(* The accounts and settings the scans are run against *)

\* Settings() with no environment override
DefaultSettings ==
    [ec2_cpu_threshold            |-> 950,
     ec2_cpu_duration_minutes     |-> 10,
     lambda_error_threshold       |-> 5,
     lambda_timeout_threshold_ms  |-> 25000,
     bedrock_token_threshold      |-> 100000,
     bedrock_token_window_minutes |-> 60,
     lookback_minutes             |-> 60,
     max_evidence_age_days        |-> 30]

Inst_iX == <<"i", "-", "X">>
Inst_i0a == <<"i", "-", "0", "a">>
Fn_MyFn == <<"M", "y", "F", "n">>
Res_object == <<"a", "r", "n", ":", "a", "w", "s", ":", "s", "3", ":", ":", ":", "b", "/", "K">>
Res_bucket == <<"a", "r", "n", ":", "a", "w", "s", ":", "s", "3", ":", ":", ":", "b">>
\* a function name and an object ARN longer than S3IdMaxLen
Fn_long == [i \in 1..(S3IdMaxLen + 1) |-> "f"]
Res_long == Res_object \o [i \in 1..S3IdMaxLen |-> "k"]

EmptyCloud ==
    [instances   |-> <<>>, cpu       |-> EmptyDict,
     functions   |-> <<>>, errors    |-> EmptyDict, durations |-> EmptyDict,
     tokens      |-> EmptyDict, invocations |-> EmptyDict,
     trail       |-> <<>>]

NoFaults == [m \in Methods |-> "ok"]

\* copilot monitor --continuous --no-evidence, left to run, over an empty
\* evidence root
ContinuousNoEvidence ==
    [command |-> "monitor", continuous |-> TRUE, collect_evidence |-> FALSE,
     enable_alerts |-> FALSE]
EmptyDisk == [entries |-> <<>>, unwritable |-> {}, files |-> {}]
DetectionOnly ==
    /\ options = ContinuousNoEvidence
    /\ sigint = "off"
    /\ disk = EmptyDisk

\* CPUUtilization datapoints (Statistics Average and Maximum)
Ec2Datapoints ==
    {[Maximum |-> 990, Average |-> 900], [Maximum |-> 990, Average |-> 910],
     [Maximum |-> 990, Average |-> 920], [Maximum |-> 980, Average |-> 910],
     [Maximum |-> 950, Average |-> 900]}

Ec2Durations == {4, 10, 12, 15}

Ec2Clouds ==
    {EmptyCloud}
    \cup {[EmptyCloud EXCEPT !.instances = <<Inst_iX>>, !.cpu = (Inst_iX :> s)] :
            s \in SeqsUpTo(Ec2Datapoints, MaxSeriesLen)}
    \cup {[EmptyCloud EXCEPT !.instances = <<Inst_iX, Inst_i0a>>,
                             !.cpu = (Inst_iX :> s) @@ (Inst_i0a :> t)] :
            s \in SeqsUpTo(Ec2Datapoints, MaxSeriesLen - 1),
            t \in {<<[Maximum |-> 990, Average |-> 920],
                     [Maximum |-> 960, Average |-> 920]>>}}

InitEC2 ==
    /\ \E d \in Ec2Durations :
           settings = [DefaultSettings EXCEPT !.ec2_cpu_duration_minutes = d]
    /\ cloud \in Ec2Clouds
    /\ faults = NoFaults
    /\ DetectionOnly

\* Errors (Sum) and Duration (Average, Maximum) datapoints
ErrorDatapoints == {[Sum |-> 0], [Sum |-> 2], [Sum |-> 3]}
DurationDatapoints ==
    {[Maximum |-> 25000, Average |-> 900], [Maximum |-> 25001, Average |-> 900]}

LambdaClouds ==
    {EmptyCloud}
    \cup {[EmptyCloud EXCEPT !.functions = <<Fn_MyFn>>,
                             !.errors = (Fn_MyFn :> e),
                             !.durations = (Fn_MyFn :> d)] :
            e \in SeqsUpTo(ErrorDatapoints, MaxSeriesLen),
            d \in SeqsUpTo(DurationDatapoints, MaxDurationLen)}
    \cup {[EmptyCloud EXCEPT !.functions = <<Fn_MyFn, Fn_long>>,
                             !.errors = (Fn_MyFn :> e) @@ (Fn_long :> f),
                             !.durations = (Fn_MyFn :> d)] :
            e \in SeqsUpTo(ErrorDatapoints, MaxSeriesLen),
            d \in SeqsUpTo(DurationDatapoints, MaxDurationLen),
            f \in {<<>>, <<[Sum |-> 5]>>}}

InitLambda ==
    /\ \E t \in {0, 5} :
           settings = [DefaultSettings EXCEPT !.lambda_error_threshold = t]
    /\ cloud \in LambdaClouds
    /\ faults = NoFaults
    /\ DetectionOnly

\* InputTokenCount and Invocations datapoints (Sum)
TokenDatapoints == {[Sum |-> 50000], [Sum |-> 49999]}
InvocationSeries == {<<>>, <<[Sum |-> 0]>>, <<[Sum |-> 4]>>}
OtherTokenSeries == {<<>>, <<[Sum |-> 100000]>>}

BedrockClouds ==
    {[EmptyCloud EXCEPT
        !.tokens = (Model_sonnet :> a) @@ (Model_haiku :> b)
                   @@ (Model_claude_v2 :> c) @@ (Model_titan :> d),
        !.invocations = (Model_sonnet :> n) @@ (Model_haiku :> m)
                        @@ (Model_claude_v2 :> m) @@ (Model_titan :> m)] :
        a \in SeqsUpTo(TokenDatapoints, MaxSeriesLen),
        b \in OtherTokenSeries, c \in OtherTokenSeries, d \in OtherTokenSeries,
        n \in InvocationSeries, m \in InvocationSeries}

InitBedrock ==
    /\ \E t \in {0, 100000} :
           settings = [DefaultSettings EXCEPT !.bedrock_token_threshold = t]
    /\ cloud \in BedrockClouds
    /\ faults = NoFaults
    /\ DetectionOnly

\* CloudTrail events as lookup_events returns them
DeniedText == [doc |-> [errorCode |-> "AccessDenied", errorMessage |-> "Access Denied"]]
SuccessText == [doc |-> [eventName |-> "GetObject"]]
GarbageText == [garbage |-> "not a JSON document"]
ObjectResource == [ResourceType |-> "AWS::S3::Object", ResourceName |-> Res_object]
BucketResource == [ResourceType |-> "AWS::S3::Bucket", ResourceName |-> Res_bucket]
LongResource == [ResourceType |-> "AWS::S3::Object", ResourceName |-> Res_long]
UnnamedResource == [ResourceType |-> "AWS::S3::Object"]

RawEvents ==
    {[EventName |-> "GetObject", Username |-> "alice",
      Resources |-> <<ObjectResource>>, CloudTrailEvent |-> DeniedText],
     [EventName |-> "GetObject", Username |-> "bob",
      Resources |-> <<ObjectResource, BucketResource>>, CloudTrailEvent |-> DeniedText],
     [EventName |-> "GetObject",
      Resources |-> <<BucketResource>>, CloudTrailEvent |-> DeniedText],
     [EventName |-> "GetObject", Username |-> "alice",
      Resources |-> <<ObjectResource, ObjectResource>>, CloudTrailEvent |-> DeniedText],
     [EventName |-> "GetObject", Username |-> "bob",
      Resources |-> <<UnnamedResource>>, CloudTrailEvent |-> DeniedText],
     [EventName |-> "GetObject", Username |-> "alice",
      Resources |-> <<ObjectResource>>, CloudTrailEvent |-> SuccessText],
     [EventName |-> "GetObject", Username |-> "alice",
      Resources |-> <<ObjectResource>>, CloudTrailEvent |-> GarbageText],
     [EventName |-> "PutObject", Username |-> "alice",
      Resources |-> <<ObjectResource>>, CloudTrailEvent |-> DeniedText],
     [EventName |-> "GetObject", Username |-> "alice",
      Resources |-> <<LongResource>>, CloudTrailEvent |-> DeniedText],
     [EventName |-> "GetObject", Username |-> "bob", CloudTrailEvent |-> DeniedText]}

S3Clouds ==
    {[EmptyCloud EXCEPT !.trail = t] : t \in SeqsUpTo(RawEvents, MaxEvents)}

InitS3 ==
    /\ settings = DefaultSettings
    /\ cloud \in S3Clouds
    /\ faults = NoFaults
    /\ DetectionOnly

\* An account in which every rule has something to report, scanned while
\* source methods fail
BusyCloud ==
    [instances   |-> <<Inst_iX>>,
     cpu         |-> (Inst_iX :> <<[Maximum |-> 990, Average |-> 900],
                                   [Maximum |-> 990, Average |-> 910]>>),
     functions   |-> <<Fn_MyFn>>,
     errors      |-> (Fn_MyFn :> <<[Sum |-> 5]>>),
     durations   |-> (Fn_MyFn :> <<[Maximum |-> 25001, Average |-> 900]>>),
     tokens      |-> (Model_sonnet :> <<[Sum |-> 100000]>>)
                     @@ (Model_titan :> <<[Sum |-> 100000]>>),
     invocations |-> (Model_sonnet :> <<[Sum |-> 4]>>),
     trail       |-> <<[EventName |-> "GetObject", Username |-> "alice",
                        Resources |-> <<ObjectResource>>,
                        CloudTrailEvent |-> DeniedText]>>]

AnonymousEvent ==
    [EventName |-> "GetObject", Resources |-> <<BucketResource>>,
     CloudTrailEvent |-> DeniedText]

\* The first source call of each detector that has one
FirstCalls == {"get_all_ec2_instances", "get_all_lambda_functions",
               "get_bedrock_input_tokens", "lookup_events"}

\* Up to MaxFaults failing methods, of any kind; or any set of detectors whose
\* first call cannot reach its endpoint
FaultSets ==
    {f \in [Methods -> Outcomes] : Cardinality({m \in Methods : f[m] # "ok"}) <= MaxFaults}
    \cup {[m \in Methods |-> IF m \in D THEN "EndpointConnectionError" ELSE "ok"] :
              D \in SUBSET FirstCalls}

InitFaults ==
    /\ settings = DefaultSettings
    /\ cloud \in {BusyCloud,
                  [BusyCloud EXCEPT !.trail = Append(BusyCloud.trail, AnonymousEvent)]}
    /\ faults \in FaultSets
    /\ DetectionOnly

\* An account in which resource names contain other rules' slugs
Fn_spike == <<"e", "c", "2", "-", "c", "p", "u", "-", "s", "p", "i", "k", "e", "-", "f", "n">>
Res_lambda_bucket == <<"a", "r", "n", ":", "a", "w", "s", ":", "s", "3", ":", ":", ":", "l", "a", "m", "b", "d", "a", "-", "e", "r", "r", "o", "r", "s">>
Res_spike_object == <<"a", "r", "n", ":", "a", "w", "s", ":", "s", "3", ":", ":", ":", "b", "/", "e", "c", "2", "-", "c", "p", "u", "-", "s", "p", "i", "k", "e">>
TrickyCloud ==
    [EmptyCloud EXCEPT
        !.functions = <<Fn_spike>>,
        !.errors    = (Fn_spike :> <<[Sum |-> 5]>>),
        !.trail     = <<[EventName |-> "GetObject", Username |-> "bob",
                         Resources |-> <<[ResourceType |-> "AWS::S3::Bucket",
                                          ResourceName |-> Res_lambda_bucket]>>,
                         CloudTrailEvent |-> DeniedText],
                        [EventName |-> "GetObject", Username |-> "bob",
                         Resources |-> <<[ResourceType |-> "AWS::S3::Object",
                                          ResourceName |-> Res_spike_object]>>,
                         CloudTrailEvent |-> DeniedText]>>]

\* An account in which resource names collide: two object names that differ
\* in ":" and "/" only, two that agree on their first S3IdMaxLen characters,
\* an event without a resource name, and a function with "function:" in its name
Res_slash == <<"a", "r", "n", ":", "a", "w", "s", ":", "s", "3", ":", ":", ":", "b", "/", "k">>
Res_colon == <<"a", "r", "n", ":", "a", "w", "s", ":", "s", "3", ":", ":", ":", "b", ":", "k">>
Fn_alias == <<"m", "y", "-", "f", "u", "n", "c", "t", "i", "o", "n", ":", "v", "1">>
DeniedEvent(resources) ==
    [EventName |-> "GetObject", Username |-> "alice", Resources |-> resources,
     CloudTrailEvent |-> DeniedText]
Named(resource_name) == [ResourceType |-> "AWS::S3::Object", ResourceName |-> resource_name]
CrowdedCloud ==
    [EmptyCloud EXCEPT
        !.instances = <<Inst_iX>>,
        !.cpu       = (Inst_iX :> <<[Maximum |-> 990, Average |-> 900],
                                    [Maximum |-> 990, Average |-> 910]>>),
        !.functions = <<Fn_alias>>,
        !.errors    = (Fn_alias :> <<[Sum |-> 5]>>),
        !.durations = (Fn_alias :> <<[Maximum |-> 25001, Average |-> 900]>>),
        !.tokens      = (Model_sonnet :> <<[Sum |-> 100000]>>),
        !.invocations = (Model_sonnet :> <<[Sum |-> 4]>>),
        !.trail     = <<DeniedEvent(<<Named(Res_slash)>>),
                        DeniedEvent(<<Named(Res_colon)>>),
                        DeniedEvent(<<Named(Res_colon), Named(Res_slash)>>),
                        DeniedEvent(<<UnnamedResource>>),
                        DeniedEvent(<<Named(Res_long \o <<"x">>)>>),
                        DeniedEvent(<<Named(Res_long \o <<"y">>)>>)>>]

AllFail(error) == [m \in Methods |-> error]

MonitorOptions ==
    [command : {"monitor"}, continuous : BOOLEAN, collect_evidence : BOOLEAN,
     enable_alerts : BOOLEAN]

\* The monitor command under each combination of its options, with and without
\* a user who interrupts it, credentials, and a directory the disk refuses
InitMonitor ==
    /\ settings = DefaultSettings
    /\ \/ /\ \/ /\ cloud \in {BusyCloud, TrickyCloud}
                /\ faults = NoFaults
             \/ /\ cloud \in {BusyCloud, EmptyCloud}
                /\ faults = AllFail("NoCredentialsError")
          /\ options \in MonitorOptions
          /\ sigint \in {"off", "armed"}
          /\ \E ids \in {{}, {LambdaId(Fn_MyFn)}, {EC2Id(Inst_iX), LambdaId(Fn_spike)}} :
                 disk = [entries |-> <<>>, unwritable |-> ids, files |-> {}]
       \/ /\ cloud = CrowdedCloud
          /\ faults \in {NoFaults, [NoFaults EXCEPT !["get_lambda_duration_metrics"] =
                                                       "EndpointConnectionError"]}
          /\ options \in {o \in MonitorOptions : o.collect_evidence}
          /\ sigint = "off"
          /\ disk = EmptyDisk

\* Entries of the evidence root: per-incident directories, archives and other
\* files, with their age in seconds; a locked entry cannot be deleted
EntryKinds ==
    {[is_dir |-> TRUE, suffix |-> ""], [is_dir |-> FALSE, suffix |-> ".gz"]}
EntryAges == {0, max_age_seconds, max_age_seconds + 1}
EntryShapes ==
    {[is_dir |-> k.is_dir, suffix |-> k.suffix, age |-> a, locked |-> l] :
        k \in EntryKinds, a \in EntryAges, l \in {FALSE}}
    \cup {[is_dir |-> k.is_dir, suffix |-> k.suffix, age |-> max_age_seconds + 1,
           locked |-> TRUE] : k \in EntryKinds}
    \cup {[is_dir |-> FALSE, suffix |-> ".txt", age |-> max_age_seconds + 1,
           locked |-> FALSE]}
EntryLists ==
    {[i \in 1..Len(shapes) |->
         [name |-> i, is_dir |-> shapes[i].is_dir, suffix |-> shapes[i].suffix,
          age |-> shapes[i].age, locked |-> shapes[i].locked]] :
        shapes \in SeqsUpTo(EntryShapes, MaxEntries)}

\* A program that calls cleanup_old_evidence, over a root with entries
InitLibrary ==
    /\ settings = DefaultSettings
    /\ cloud = EmptyCloud
    /\ faults = NoFaults
    /\ options = [ContinuousNoEvidence EXCEPT !.command = "library"]
    /\ sigint = "off"
    /\ \E entries \in EntryLists : disk = [entries |-> entries, unwritable |-> {}, files |-> {}]

\* A program that calls the collector by hand, over a fresh root
InitCollector ==
    /\ settings = DefaultSettings
    /\ cloud = EmptyCloud
    /\ faults = NoFaults
    /\ options = [ContinuousNoEvidence EXCEPT !.command = "collector"]
    /\ sigint = "off"
    /\ disk = EmptyDisk

\* A program that loads incident files through copilot.sources.mock
InitLoader ==
    /\ settings = DefaultSettings
    /\ cloud = EmptyCloud
    /\ faults = NoFaults
    /\ options = [ContinuousNoEvidence EXCEPT !.command = "loader"]
    /\ sigint = "off"
    /\ disk = EmptyDisk

\* The environment of the deployed endpoint: whether the copilot package can be
\* imported, AWS_ACCESS_KEY_ID and AWS_SECRET_ACCESS_KEY (the empty text when
\* unset), and the text of the error the source constructors raise (the empty
\* text when they succeed)
AccessKeys ==
    {<<>>,
     <<"A", "K", "I", "A", "X">>,
     <<"Y", "o", "u", "r", "_", "k", "e", "y">>,
     <<"A", "K", "I", "A", "E", "X", "A", "M", "P", "L", "E">>}
SecretKeys == {<<>>, <<"s", "3", "c", "r", "3", "t">>}
ApiOptions ==
    {[command |-> "api", continuous |-> FALSE, collect_evidence |-> FALSE,
      enable_alerts |-> FALSE, dependencies_available |-> d, access_key |-> a,
      secret_key |-> s, source_error |-> e] :
        d \in BOOLEAN, a \in AccessKeys, s \in SecretKeys, e \in {<<>>} \cup ErrorTexts}

\* GET requests to the scan endpoint
InitApi ==
    /\ settings = DefaultSettings
    /\ cloud \in {EmptyCloud, BusyCloud, CrowdedCloud}
    /\ faults = NoFaults
    /\ options \in ApiOptions
    /\ sigint = "off"
    /\ disk = EmptyDisk

\* A program that calls sanitize_error_message itself
InitDeveloper ==
    /\ settings = DefaultSettings
    /\ cloud = EmptyCloud
    /\ faults = NoFaults
    /\ options = [ContinuousNoEvidence EXCEPT !.command = "developer"]
    /\ sigint = "off"
    /\ disk = EmptyDisk

Init ==
    /\ scan_no = 0
    /\ \/ InitEC2
       \/ InitLambda
       \/ InitBedrock
       \/ InitS3
       \/ InitFaults
       \/ InitMonitor
       \/ InitLibrary
       \/ InitCollector
       \/ InitLoader
       \/ InitApi
       \/ InitDeveloper
    /\ pc = "idle"
    /\ idx = 1
    /\ all_incidents = <<>>
    /\ returned = <<>>
    /\ collected = <<>>
    /\ alerted = NoAlert
    /\ pending = <<>>
    /\ prev_incidents = NoScan
    /\ reply = NoReply

Spec == Init /\ [][Next]_vars

----------------------------------------------------------------------------
(* Properties of the detection engine *)

ResultOf(name) ==
    LET i == CHOOSE i \in 1..Len(returned) : returned[i].detector = name
    IN returned[i].result

HasRun(name) == \E i \in 1..Len(returned) : returned[i].detector = name

Returned(name) == HasRun(name) /\ ~ResultOf(name).raised

Range(s) == {s[i] : i \in 1..Len(s)}

\* What the detectors that did not raise returned, concatenated in call order
ContributionsSoFar ==
    Flatten([i \in 1..Len(returned) |->
                IF returned[i].result.raised THEN <<>> ELSE returned[i].result.value])

\* C1: run_all_detectors never raises, whichever detectors raise; it calls the
\* five detectors in roster order, skipping none, and the list it returns is
\* the concatenation, in that order, of the lists of the detectors that did
\* not raise (a raising detector contributes nothing).
RunAllIsolatesFailures ==
    /\ pc # "raised"
    /\ pc \in {"running", "done"} =>
          /\ Len(returned) = idx - 1
          /\ [i \in 1..Len(returned) |-> returned[i].detector] = SubSeq(roster, 1, idx - 1)
          /\ all_incidents = ContributionsSoFar
    /\ pc = "done" => Len(returned) = Len(roster)

\* A scan has ended in which a detector raised and a later one contributed.
RunAllIsolatesFailures_Witness ==
    /\ pc = "done"
    /\ \E i, j \in 1..Len(returned) :
          /\ i < j
          /\ returned[i].result.raised
          /\ ~returned[j].result.raised
          /\ returned[j].result.value # <<>>
          /\ all_incidents # <<>>

\* What each source answers, over every resource the account names
InstanceIdsKnown == Range(cloud.instances) \cup DOMAIN cloud.cpu
FunctionNamesKnown == Range(cloud.functions) \cup DOMAIN cloud.errors \cup DOMAIN cloud.durations

EC2SeriesEmpty == \A id \in InstanceIdsKnown : get_ec2_cpu_metrics(id) = Ok(<<>>)

LambdaSeriesEmpty ==
    \A fn \in FunctionNamesKnown :
        /\ get_lambda_error_metrics(fn) = Ok(<<>>)
        /\ get_lambda_duration_metrics(fn) = Ok(<<>>)

BedrockSeriesEmpty ==
    \A m \in Range(model_ids) :
        /\ get_bedrock_input_tokens(m) = Ok(<<>>)
        /\ get_bedrock_invocation_metrics(m) = Ok(<<>>)

EventsEmpty == get_s3_access_denied_events = Ok(<<>>)

InventoryAnswers ==
    /\ ~get_all_ec2_instances.raised
    /\ ~get_all_lambda_functions.raised

\* C2: a detector whose series and event queries all come back empty returns
\* no incident, under every Settings value (whatever the inventory lists), and
\* then so does run_all_detectors.
NoIncidentOnEmptyData ==
    /\ (HasRun("EC2CPUSpikeDetector") /\ EC2SeriesEmpty /\ InventoryAnswers)
          => ResultOf("EC2CPUSpikeDetector") = Ok(<<>>)
    /\ (HasRun("LambdaErrorDetector") /\ LambdaSeriesEmpty /\ InventoryAnswers)
          => ResultOf("LambdaErrorDetector") = Ok(<<>>)
    /\ (HasRun("BedrockTokenUsageDetector") /\ BedrockSeriesEmpty)
          => ResultOf("BedrockTokenUsageDetector") = Ok(<<>>)
    /\ (HasRun("S3AccessDeniedDetector") /\ EventsEmpty)
          => ResultOf("S3AccessDeniedDetector") = Ok(<<>>)
    /\ HasRun("DynamoDBThrottleDetector")
          => ResultOf("DynamoDBThrottleDetector") = Ok(<<>>)
    /\ (pc = "done" /\ EC2SeriesEmpty /\ LambdaSeriesEmpty /\ BedrockSeriesEmpty
            /\ EventsEmpty /\ InventoryAnswers)
          => all_incidents = <<>>

\* A scan over an account that lists a function but has no datapoint and no
\* event, with lambda_error_threshold 0, has ended.
NoIncidentOnEmptyData_Witness ==
    /\ pc = "done"
    /\ EC2SeriesEmpty /\ LambdaSeriesEmpty /\ BedrockSeriesEmpty /\ EventsEmpty
    /\ InventoryAnswers
    /\ cloud.functions # <<>>
    /\ settings.lambda_error_threshold = 0
    /\ all_incidents = <<>>

\* The incidents a detector returned, and the one it raised for a resource
IncidentsOf(name) == IF Returned(name) THEN Range(ResultOf(name).value) ELSE {}

IncidentsFor(name, resource) == {inc \in IncidentsOf(name) : inc.resource = resource}

\* Datapoints of a series whose Maximum is strictly above the CPU threshold
ExceedingDatapoints(metrics) ==
    {i \in 1..Len(metrics) : metrics[i].Maximum > settings.ec2_cpu_threshold}

\* C3: once EC2CPUSpikeDetector.detect has returned, an instance with a
\* non-empty CPU series has an incident exactly when the number of its
\* datapoints with Maximum above ec2_cpu_threshold is at least
\* ec2_cpu_duration_minutes / 5, for every configured duration.
EC2IncidentIffSustained ==
    Returned("EC2CPUSpikeDetector") =>
        \A id \in Range(get_all_ec2_instances.value) :
            LET metrics == get_ec2_cpu_metrics(id).value
            IN metrics # <<>> =>
                  ( IncidentsFor("EC2CPUSpikeDetector", id) # {}
                    <=> Cardinality(ExceedingDatapoints(metrics)) * SamplePeriodMinutes
                            >= settings.ec2_cpu_duration_minutes )

PeakMaximum(metrics) ==
    CHOOSE v \in {metrics[i].Maximum : i \in 1..Len(metrics)} :
        \A i \in 1..Len(metrics) : metrics[i].Maximum <= v

\* C4: every incident of EC2CPUSpikeDetector.detect is HIGH when the largest
\* Maximum of the instance's series is strictly above 98 and MEDIUM otherwise
\* (a peak of exactly 98 is MEDIUM).
EC2SeverityBoundary ==
    \A inc \in IncidentsOf("EC2CPUSpikeDetector") :
        LET metrics == get_ec2_cpu_metrics(inc.resource).value
        IN /\ metrics # <<>>
           /\ inc.severity = IF PeakMaximum(metrics) > 980 THEN "HIGH" ELSE "MEDIUM"

\* An incident was raised for a series whose peak is exactly 98, and another
\* scan state holds one whose peak is above it.
EC2SeverityBoundary_Witness ==
    \E inc \in IncidentsOf("EC2CPUSpikeDetector") :
        /\ PeakMaximum(get_ec2_cpu_metrics(inc.resource).value) = 980
        /\ inc.severity = "MEDIUM"

ErrorTotal(metrics) == SumOf(metrics, "Sum", 0)

FunctionOf(inc) == SubSeq(inc.resource, Len(Txt_function) + 1, Len(inc.resource))

BedrockSourceAnswers ==
    /\ faults["get_bedrock_input_tokens"] # "EndpointConnectionError"
    /\ faults["get_bedrock_invocation_metrics"] # "EndpointConnectionError"

QualifyingModel(m) ==
    LET tokens == get_bedrock_input_tokens(m).value
    IN tokens # <<>> /\ SumOf(tokens, "Sum", 0) >= settings.bedrock_token_threshold

\* C6: when its source calls answer, BedrockTokenUsageDetector.detect returns
\* without an error exactly one incident, HIGH, for each of the four model ids
\* whose input-token series is non-empty and sums to at least
\* bedrock_token_threshold, and none for another model; when the invocations
\* sum to 0 (or there is none) the average tokens per call is 0.
BedrockOnePerQualifyingModel ==
    (HasRun("BedrockTokenUsageDetector") /\ BedrockSourceAnswers) =>
        /\ Returned("BedrockTokenUsageDetector")
        /\ LET incs == ResultOf("BedrockTokenUsageDetector").value
           IN /\ \A m \in Range(model_ids) :
                    Cardinality({i \in 1..Len(incs) : incs[i].resource = Txt_model \o m})
                        = IF QualifyingModel(m) THEN 1 ELSE 0
              /\ \A i \in 1..Len(incs) :
                    /\ incs[i].severity = "HIGH"
                    /\ \E m \in Range(model_ids) : incs[i].resource = Txt_model \o m
                    /\ incs[i].description.total_invocations = 0
                          => incs[i].description.avg_tokens_per_call.num = 0

\* A model qualified although its invocations sum to 0.
BedrockOnePerQualifyingModel_Witness ==
    \E inc \in IncidentsOf("BedrockTokenUsageDetector") :
        /\ inc.description.total_invocations = 0
        /\ inc.description.total_tokens > 0

\* Resource names of the fetched access-denied events
FetchedEvents == get_s3_access_denied_events.value

NamesIn(event) ==
    {IF "ResourceName" \in DOMAIN event.resources[j]
        THEN event.resources[j].ResourceName ELSE Txt_unknown :
        j \in 1..Len(event.resources)}

EventsTouching(resource_name) ==
    {i \in 1..Len(FetchedEvents) : resource_name \in NamesIn(FetchedEvents[i])}

\* C7: when the event source answers, S3AccessDeniedDetector.detect returns
\* exactly one incident, HIGH, per distinct resource name of the fetched
\* access-denied events; its event count is the number of fetched events whose
\* resources include that name, and its users are the distinct usernames of
\* those events.
S3OneIncidentPerResource ==
    (HasRun("S3AccessDeniedDetector") /\ ~get_s3_access_denied_events.raised) =>
        /\ Returned("S3AccessDeniedDetector")
        /\ LET incs == ResultOf("S3AccessDeniedDetector").value
               names == UNION {NamesIn(FetchedEvents[i]) : i \in 1..Len(FetchedEvents)}
           IN /\ \A n \in names :
                    Cardinality({i \in 1..Len(incs) : incs[i].resource = n}) = 1
              /\ \A i \in 1..Len(incs) :
                    /\ incs[i].resource \in names
                    /\ incs[i].severity = "HIGH"
                    /\ incs[i].description.event_count
                          = Cardinality(EventsTouching(incs[i].resource))
                    /\ Range(incs[i].description.affected_users)
                          = {FetchedEvents[k].username :
                                k \in EventsTouching(incs[i].resource)}

IdentityOf(incidents) ==
    [i \in 1..Len(incidents) |->
        [rule |-> incidents[i].description.rule, resource |-> incidents[i].resource,
         id |-> incidents[i].id]]

\* C8: a scan repeated over the same data and Settings returns, for every
\* rule and resource, an incident with the id the previous scan gave it, and
\* the same ids overall, whatever the description texts say.
RepeatedScanKeepsIds ==
    (pc = "done" /\ prev_incidents # NoScan) =>
        IdentityOf(all_incidents) = IdentityOf(prev_incidents)

\* Two scans of the same data returned incidents that differ, in their
\* description only.
RepeatedScanKeepsIds_Witness ==
    /\ pc = "done"
    /\ prev_incidents # NoScan
    /\ all_incidents # prev_incidents
    /\ \E i \in 1..Len(all_incidents) :
          all_incidents[i].description # prev_incidents[i].description

RuleSlugs == {Slug_ec2, Slug_lambda, Slug_bedrock, Slug_s3}

HasSlug(id, slug) == StartsWithAt(id, 1, slug \o <<"-">>)

\* the id without its rule slug and the dash after it
IdTail(id) ==
    LET slug == CHOOSE s \in RuleSlugs : HasSlug(id, s)
    IN SubSeq(id, Len(slug) + 2, Len(id))

\* The identifier the detector was given: incident.resource without the
\* "function:" or "model:" the detector puts before it
IdentifierOf(inc) ==
    CASE inc.description.rule = "lambda" ->
            SubSeq(inc.resource, Len(Txt_function) + 1, Len(inc.resource))
      [] inc.description.rule = "bedrock" ->
            SubSeq(inc.resource, Len(Txt_model) + 1, Len(inc.resource))
      [] OTHER -> inc.resource

AllReturnedIncidents ==
    UNION {Range(returned[i].result.value) :
              i \in {k \in 1..Len(returned) : ~returned[k].result.raised}}

ReplacedBy(rule) ==
    CASE rule = "s3" -> {":", "/"}
      [] rule = "bedrock" -> {":", "."}
      [] OTHER -> {}

Txt_id_scenario_lower == <<"e", "c", "2", "-", "c", "p", "u", "-", "s", "p", "i", "k", "e", "-", "i", "-", "x">>
Txt_id_scenario == <<"e", "c", "2", "-", "c", "p", "u", "-", "s", "p", "i", "k", "e", "-", "i", "-", "X">>

Ec2Scenario ==
    /\ get_all_ec2_instances = Ok(<<Inst_iX>>)
    /\ get_ec2_cpu_metrics(Inst_iX) =
          Ok(<<[Maximum |-> 990, Average |-> 900], [Maximum |-> 990, Average |-> 910],
               [Maximum |-> 990, Average |-> 920]>>)
    /\ settings.ec2_cpu_threshold = 950
    /\ settings.ec2_cpu_duration_minutes = 10

Ec2ScenarioOutcome(expected_id) ==
    (Ec2Scenario /\ HasRun("EC2CPUSpikeDetector")) =>
        /\ Returned("EC2CPUSpikeDetector")
        /\ LET incs == ResultOf("EC2CPUSpikeDetector").value
           IN /\ Len(incs) = 1
              /\ incs[1].id = expected_id
              /\ incs[1].severity = "HIGH"
              /\ incs[1].description.max_cpu = 990
              /\ 900 * incs[1].description.avg_cpu.den <= incs[1].description.avg_cpu.num
              /\ incs[1].description.avg_cpu.num <= 920 * incs[1].description.avg_cpu.den

----------------------------------------------------------------------------
(* Properties of the evidence collector *)

\* The collect_for_incident calls made so far that got past mkdir
CollectCalls == {c \in Range(collected) : c.result.calls # <<>> \/ c.result.writes # <<>>}

\* The rule whose slug an id begins with
RuleOfPrefix(id) ==
    IF StartsWithAt(id, 1, Slug_ec2) THEN "ec2"
    ELSE IF StartsWithAt(id, 1, Slug_lambda) THEN "lambda"
    ELSE IF StartsWithAt(id, 1, Slug_bedrock) THEN "bedrock"
    ELSE IF StartsWithAt(id, 1, Slug_s3) THEN "s3"
    ELSE "none"

\* The source methods each rule's evidence branch calls
MethodsOfRule(rule) ==
    CASE rule = "ec2"     -> {"get_ec2_cpu_metrics"}
      [] rule = "lambda"  -> {"get_lambda_error_metrics", "get_lambda_duration_metrics"}
      [] rule = "bedrock" -> {"get_bedrock_input_tokens", "get_bedrock_invocation_metrics"}
      [] rule = "s3"      -> {"get_s3_access_denied_events"}
      [] OTHER            -> {}

MethodsCalled(result) == {result.calls[i].method : i \in 1..Len(result.calls)}

\* C11: an incident whose id begins with a rule's slug is handled by that
\* rule's evidence branch and by no other: the source methods the call uses
\* are those of the rule of the prefix, whatever the rest of the id contains.
EvidenceBranchFollowsPrefix ==
    \A c \in CollectCalls :
        RuleOfPrefix(c.incident.id) # "none" =>
            /\ MethodsCalled(c.result) # {}
            /\ MethodsCalled(c.result) \subseteq MethodsOfRule(RuleOfPrefix(c.incident.id))

\* An id that contains none of the four slugs
MatchesNoSlug(id) ==
    \A slug \in {Slug_ec2, Slug_lambda, Slug_bedrock, Slug_s3} : ~Contains(id, slug)

\* C12: collect_for_incident on an incident whose id matches none of the four
\* rule slugs returns a mapping whose only key is "incident.json", calls no
\* source method, and writes no file but incident.json in the incident's
\* directory.
UnmatchedIdYieldsOnlyIncidentJson ==
    \A c \in Range(collected) :
        (MatchesNoSlug(c.incident.id) /\ ~c.result.raised) =>
            /\ Len(c.result.evidence) = 1
            /\ c.result.evidence[1].key = Txt_incident_json
            /\ c.result.calls = <<>>
            /\ Len(c.result.writes) = 1
            /\ c.result.writes[1].path =
                   <<"evidence">> \o <<c.incident.id>> \o <<Txt_incident_json>>

\* The collector has been called with an incident of no known rule and returned.
UnmatchedIdYieldsOnlyIncidentJson_Witness ==
    \E c \in Range(collected) :
        /\ MatchesNoSlug(c.incident.id)
        /\ ~c.result.raised
        /\ c.result.writes # <<>>

\* path lies under dir
Under(path, dir) == Len(path) > Len(dir) /\ SubSeq(path, 1, Len(dir)) = dir

\* {output_dir}/{incident.id}, for ids without "/"
ExpectedDir(incident) == <<"evidence", incident.id>>

\* C13: a collect_for_incident call that returns yields a mapping in which
\* "incident.json" maps to {output_dir}/{incident.id}/incident.json; that
\* file is written after every rule-specific file of the call; and every
\* path of the mapping lies under {output_dir}/{incident.id}/.
IncidentJsonLastAndUnderIncidentDir ==
    \A c \in Range(collected) :
        ~c.result.raised =>
            LET ev == c.result.evidence
                wr == c.result.writes
                dir == ExpectedDir(c.incident)
            IN /\ \E i \in 1..Len(ev) :
                      /\ ev[i].key = Txt_incident_json
                      /\ ev[i].path = dir \o <<Txt_incident_json>>
               /\ wr # <<>>
               /\ wr[Len(wr)].path = dir \o <<Txt_incident_json>>
               /\ \A i \in 1..(Len(wr) - 1) : wr[i].path # dir \o <<Txt_incident_json>>
               /\ \A i \in 1..Len(ev) : Under(ev[i].path, dir)
               /\ \A i \in 1..Len(wr) : Under(wr[i].path, dir)
               /\ {ev[i].path : i \in 1..Len(ev)} = {wr[i].path : i \in 1..Len(wr)}

\* A scan has collected evidence, with rule-specific files, for incidents of
\* all four rules.
IncidentJsonLastAndUnderIncidentDir_Witness ==
    /\ pc = "scanned"
    /\ \A rule \in {"ec2", "lambda", "bedrock", "s3"} :
           \E c \in Range(collected) :
               /\ RuleOfPrefix(c.incident.id) = rule
               /\ ~c.result.raised
               /\ Len(c.result.writes) >= 2

\* An entry that is a per-incident directory or an archive, and whose
\* last-modified time is older than max_evidence_age_days
Outdated(e) ==
    /\ e.is_dir \/ e.suffix = ".gz"
    /\ e.age > settings.max_evidence_age_days * 86400

\* C14: when cleanup_old_evidence completes, no directory or archive of the
\* evidence root older than max_evidence_age_days is left, and at no step is
\* an entry within the retention window removed or changed.
CleanupRemovesExactlyTheOutdated ==
    /\ [][(pc = "cleaning" /\ pc' = "idle") =>
             \A e \in Range(disk'.entries) : ~Outdated(e)]_vars
    /\ [][\A e \in Range(disk.entries) :
             ~Outdated(e) => e \in Range(disk'.entries)]_vars

\* A cleanup has completed that removed the first entry and kept the second,
\* whose age is exactly the retention window.
CleanupRemovesExactlyTheOutdated_Witness ==
    /\ options.command = "library"
    /\ pc = "idle"
    /\ Len(disk.entries) = 1
    /\ disk.entries[1].name = 2
    /\ disk.entries[1].is_dir
    /\ disk.entries[1].age = settings.max_evidence_age_days * 86400

\* C15: cleanup_old_evidence does not raise when a deletion fails, and the
\* other outdated entries are still deleted by the same call: the call always
\* runs to completion, whatever the file system refuses.
CleanupIsBestEffort ==
    options.command = "library" => pc # "crashed"

----------------------------------------------------------------------------
(* Properties of error handling and of the monitor loop *)

\* Authentication, authorization, rate-limit (ClientError), missing
\* credentials (NoCredentialsError) and connectivity (EndpointConnectionError)
TransportErrors == {"ClientError", "NoCredentialsError", "EndpointConnectionError"}

\* What each source method answers to the query the detectors make first
SourceAnswer(m) ==
    CASE m = "get_all_ec2_instances"          -> get_all_ec2_instances
      [] m = "get_ec2_cpu_metrics"            -> get_ec2_cpu_metrics(Inst_iX)
      [] m = "get_all_lambda_functions"       -> get_all_lambda_functions
      [] m = "get_lambda_error_metrics"       -> get_lambda_error_metrics(Fn_MyFn)
      [] m = "get_lambda_duration_metrics"    -> get_lambda_duration_metrics(Fn_MyFn)
      [] m = "get_bedrock_input_tokens"       -> get_bedrock_input_tokens(Model_sonnet)
      [] m = "get_bedrock_invocation_metrics" -> get_bedrock_invocation_metrics(Model_sonnet)
      [] m = "lookup_events"                  -> lookup_events("GetObject", S3LookupMaxResults)

\* C16: a transport failure of the cloud call behind a source method never
\* reaches a detector: the method catches it and returns an empty list, so no
\* detect() ever raises a transport error.
TransportErrorsStayInSources ==
    /\ \A i \in 1..Len(returned) :
           returned[i].result.raised => returned[i].result.error \notin TransportErrors
    /\ pc = "done" =>
           \A m \in Methods : faults[m] \in TransportErrors => SourceAnswer(m) = Ok(<<>>)

\* Every source call fails for missing credentials
CredentialsMissing == \A m \in Methods : faults[m] = "NoCredentialsError"

\* What a successful scan that found nothing reports
ZeroIncidentsFound == [incidents |-> <<>>, printed |-> "No incidents detected"]

\* C17: a scan never raises, and a scan whose source calls failed for missing
\* credentials does not end in the outcome of a successful scan that found
\* zero incidents.
CredentialFailureIsNotZeroIncidents ==
    /\ pc # "raised"
    /\ (pc = "scanned" /\ CredentialsMissing) => scan_outcome # ZeroIncidentsFound

\* The scan has run detection, collected evidence for every incident and alerted
ScanComplete ==
    /\ Len(returned) = Len(roster)
    /\ (all_incidents # <<>> /\ options.collect_evidence) =>
           [i \in 1..Len(collected) |-> collected[i].incident] = all_incidents
    /\ (all_incidents # <<>> /\ options.enable_alerts) => alerted = all_incidents

\* C18: a scan starts only when no scan is under way: the first from the idle
\* monitor, each later one from the sleep that follows a complete scan
\* (detection, evidence for every incident, alerting). Within a scan, evidence
\* is collected only after detection has returned and alerts are sent only
\* after the evidence loop; in single-scan mode exactly one scan runs.
ScansNeverOverlap ==
    /\ [][scan_no' # scan_no =>
             /\ scan_no' = scan_no + 1
             /\ pc \in {"idle", "sleeping"}
             /\ pc = "sleeping" => ScanComplete]_vars
    /\ [][pc' = "sleeping" => (pc \in {"scanned", "sleeping"} /\ ScanComplete)]_vars
    /\ [][(pc' = "scanned" /\ pc # "scanned") => ScanComplete']_vars
    /\ [][collected' # collected =>
             \/ options.command = "collector"
             \/ scan_no' # scan_no
             \/ (pc \in {"done", "collecting"} /\ Len(returned) = Len(roster)
                   /\ alerted = NoAlert)]_vars
    /\ [][alerted' # alerted =>
             \/ scan_no' # scan_no
             \/ (pc \in {"done", "collecting"} /\ Len(returned) = Len(roster)
                   /\ (options.collect_evidence => Len(collected) = Len(all_incidents)))]_vars
    /\ [](~options.continuous => scan_no <= 1)
    /\ [](pc = "exited" => (scan_no = 1 /\ ScanComplete))

\* A second scan is under way after a first that collected evidence and alerted.
ScansNeverOverlap_Witness ==
    /\ scan_no = 2
    /\ pc = "collecting"
    /\ options.enable_alerts
    /\ prev_incidents # NoScan
    /\ prev_incidents # <<>>

\* C19 as stated: an interrupt that arrives while a scan is in progress does
\* not abort it; monitoring stops only between iterations.
InterruptWaitsForTheScan == [][(pc \in InScan) => (pc' # "stopped")]_vars

\* C19, amended: Ctrl+C takes effect wherever the monitor is, inside a scan
\* too: whenever the user can interrupt and the monitor is scanning or
\* sleeping, the interrupt can stop it there; the interrupted scan is
\* abandoned as it stands (no detector, evidence or alert step is added); and
\* once stopped the monitor does nothing more.
InterruptStopsTheScanAtOnce ==
    /\ []((sigint = "armed" /\ pc \in InMonitor) => ENABLED KeyboardInterrupt)
    /\ [][pc' = "stopped" =>
             /\ pc \in InMonitor
             /\ returned' = returned
             /\ all_incidents' = all_incidents
             /\ collected' = collected
             /\ alerted' = alerted]_vars
    /\ [][(pc # "stopped")]_vars

\* The monitor was stopped in the middle of an evidence loop, before alerting.
InterruptStopsTheScanAtOnce_Witness ==
    /\ pc = "stopped"
    /\ Len(returned) = Len(roster)
    /\ collected # <<>>
    /\ Len(collected) < Len(all_incidents)
    /\ options.enable_alerts
    /\ alerted = NoAlert

\* A collect_for_incident call of this scan failed
SomeCollectFailed == \E i \in 1..Len(collected) : collected[i].result.raised

\* C20: a failure of collect_for_incident for one incident does not abort the
\* batch: the monitor does not crash; when the scan returns, collect has been
\* invoked for every incident, in order, and the alerting step has run; and in
\* continuous mode the sleep and the next scan follow.
EvidenceFailureIsIsolated ==
    /\ options.command = "monitor" => pc # "crashed"
    /\ (SomeCollectFailed /\ pc \in {"scanned", "sleeping", "exited"}) => ScanComplete
    /\ (SomeCollectFailed /\ pc = "scanned" /\ options.continuous) => ENABLED Sleep
    /\ (SomeCollectFailed /\ pc = "sleeping" /\ scan_no < MaxScans) =>
           ENABLED scan_for_incidents

\* In continuous mode with alerts, a scan whose first collection failed has
\* collected for the later incidents, alerted, and reached the sleep.
EvidenceFailureIsIsolated_Witness ==
    /\ pc = "sleeping"
    /\ options.enable_alerts
    /\ Len(collected) >= 2
    /\ collected[1].result.raised
    /\ ~collected[Len(collected)].result.raised
    /\ alerted = all_incidents
----------------------------------------------------------------------------
(* Properties of what the collector leaves on disk *)

\* The call of collect_for_incident or package_evidence made in this step
CallMade == collected' # collected /\ collected' # <<>>
CallIncident == collected'[Len(collected')].incident
CallWrites ==
    LET c == collected'[Len(collected')]
    IN c.result.writes \o (IF "tarball" \in DOMAIN c THEN c.tarball ELSE <<>>)
CallPaths == {CallWrites[i].path : i \in 1..Len(CallWrites)}

\* C21 as stated: evidence writes are append-only to fresh paths: no call of
\* collect_for_incident or package_evidence writes to a path where an earlier
\* call has left a file.
EvidenceWritesAreAppendOnly ==
    [][CallMade => CallPaths \cap Paths(disk.files) = {}]_vars

\* C21, amended: a call never overwrites a file that an earlier call wrote
\* for an incident with a different id; the files it writes are on disk
\* afterwards under its own id, and every other file stays as it was.
EvidenceWritesOverwriteSameIdOnly ==
    /\ [][CallMade =>
             \A f \in disk.files : f.path \in CallPaths => f.id = CallIncident.id]_vars
    /\ [][CallMade =>
             /\ \A p \in CallPaths : [path |-> p, id |-> CallIncident.id] \in disk'.files
             /\ \A f \in disk.files : f.path \notin CallPaths => f \in disk'.files]_vars
    /\ [][disk'.files # disk.files => CallMade]_vars

\* The second scan has re-detected two incidents and written the evidence of
\* both over the files of the first scan.
EvidenceWritesOverwriteSameIdOnly_Witness ==
    /\ scan_no = 2
    /\ Len(collected) >= 2
    /\ collected[1].incident.id # collected[2].incident.id
    /\ collected[1].result.writes # <<>>
    /\ collected[2].result.writes # <<>>
    /\ prev_incidents = all_incidents
    /\ \A i \in 1..2 : \A j \in 1..Len(collected[i].result.writes) :
           [path |-> collected[i].result.writes[j].path, id |-> collected[i].incident.id]
               \in disk.files

\* The seven fields of Incident
IncidentFields ==
    {Key_id, Key_title, Key_severity, Key_resource, Key_description, Key_suggested_fix,
     Key_evidence_files}

\* C22: serializing an Incident to JSON and deserializing the text yields an
\* Incident equal to the original in all seven fields (an empty
\* evidence_files included), and the serialized object has exactly the seven
\* fields, evidence_files being an array of strings.
IncidentRoundTrip ==
    reply.call = "load_incident" =>
        /\ \A incident \in SampleIncidents \cup ForeignIncidents :
               reply.text = json_dump(model_dump(incident)) => reply.result = Ok(incident)
        /\ LET o == ParseObject(reply.text)
           IN /\ o.ok
              /\ Len(o.value) = Cardinality(IncidentFields)
              /\ {o.value[i].key : i \in 1..Len(o.value)} = IncidentFields
              /\ \A i \in 1..Len(o.value) :
                     o.value[i].value.kind = (IF o.value[i].key = Key_evidence_files
                                        THEN "list" ELSE "str")

\* An incident with quotes and backslashes in its texts and an empty
\* evidence_files has been written and read back.
IncidentRoundTrip_Witness ==
    /\ reply.call = "load_incident"
    /\ ~reply.result.raised
    /\ reply.result.value.description = <<"\\", "\"">>
    /\ reply.result.value.evidence_files = <<>>
    /\ Contains(reply.text, <<"\\", "\\", "\\", "\"">>)

\* The calls of collect_for_incident in which the S3 branch wrote its file
S3BranchCalls ==
    {k \in 1..Len(collected) :
        /\ EvidenceBranch(collected[k].incident.id) = "s3"
        /\ Len(collected[k].result.writes) >= 1
        /\ collected[k].result.writes[1].path[Len(collected[k].result.writes[1].path)]
               # Txt_incident_json}

\* The event names incident's resource among its affected resources
Touches(event, resource) ==
    \E j \in 1..Len(event.resources) :
        /\ "ResourceName" \in DOMAIN event.resources[j]
        /\ event.resources[j].ResourceName = resource

\* C23: the S3 evidence branch writes exactly the re-fetched access-denied
\* events of which at least one affected resource has ResourceName equal to
\* incident.resource, in fetch order: none that does not touch the resource,
\* none that touches it left out.
S3EvidenceHoldsTheResourcesEvents ==
    \A k \in S3BranchCalls :
        LET resource == collected[k].incident.resource
            written  == collected[k].result.writes[1].content
            fetched  == get_s3_access_denied_events.value
            touching == {i \in 1..Len(fetched) : Touches(fetched[i], resource)}
            Nth(n)   == CHOOSE i \in touching : Cardinality({j \in touching : j < i}) = n - 1
        IN /\ Len(written) = Cardinality(touching)
           /\ \A n \in 1..Len(written) : written[n] = fetched[Nth(n)]

\* The S3 branch has written two of six fetched events, the first and the
\* third, for an incident on a resource that only those two touch.
S3EvidenceHoldsTheResourcesEvents_Witness ==
    \E k \in S3BranchCalls :
        /\ collected[k].incident.resource = Res_slash
        /\ Len(get_s3_access_denied_events.value) = 6
        /\ collected[k].result.writes[1].content =
               << get_s3_access_denied_events.value[1], get_s3_access_denied_events.value[3] >>

\* The five detectors that run_all_detectors builds, in its order
FiveDetectors ==
    <<"EC2CPUSpikeDetector", "LambdaErrorDetector", "BedrockTokenUsageDetector",
      "S3AccessDeniedDetector", "DynamoDBThrottleDetector">>

\* C24: DynamoDBThrottleDetector.detect returns an empty list whatever the
\* sources hold or answer, and every run_all_detectors call invokes exactly
\* the five detectors EC2, Lambda, Bedrock, S3, DynamoDB, once each, in that
\* order.
TableThrottleIsNoOpInFixedRoster ==
    /\ \A i \in 1..Len(returned) :
           /\ i <= Len(FiveDetectors)
           /\ returned[i].detector = FiveDetectors[i]
           /\ returned[i].detector = "DynamoDBThrottleDetector" =>
                  returned[i].result = Ok(<<>>)
    /\ pc \in {"done", "collecting", "scanned", "sleeping", "exited"} =>
           Len(returned) = Len(FiveDetectors)

\* A scan has ended in which none of the four other detectors could reach its
\* endpoint and the table detector still returned its empty list.
TableThrottleIsNoOpInFixedRoster_Witness ==
    /\ pc = "done"
    /\ Len(returned) = 5
    /\ \A i \in 1..4 : returned[i].result.raised
    /\ returned[5] = [detector |-> "DynamoDBThrottleDetector", result |-> Ok(<<>>)]

\* C25: in the list that run_all_detectors builds, two incidents raised for
\* different (rule, resource) pairs never share an id, so their evidence
\* directories {output_dir}/{id} never coincide.
IncidentIdsAreUniqueInAScan ==
    \A i, j \in 1..Len(all_incidents) :
        (\/ all_incidents[i].description.rule # all_incidents[j].description.rule
         \/ all_incidents[i].resource # all_incidents[j].resource) =>
            /\ all_incidents[i].id # all_incidents[j].id
            /\ incident_dir(all_incidents[i]) # incident_dir(all_incidents[j])

\* C26: every file name in the mapping that collect_for_incident returns for a
\* detector's incident, other than "incident.json", is one of the names listed
\* in that incident's evidence_files.
EvidenceNamesAreInTheManifest ==
    \A k \in 1..Len(collected) :
        LET incident == collected[k].incident
            evidence == collected[k].result.evidence
        IN (options.command = "monitor" /\ ~collected[k].result.raised) =>
               \A n \in 1..Len(evidence) :
                   evidence[n].key # Txt_incident_json =>
                       \E f \in 1..Len(incident.evidence_files) :
                           incident.evidence_files[f] = evidence[n].key

\* C27: for an incident of the EC2, Lambda or Bedrock detector, the resource
\* key that collect_for_incident passes to the metrics source is the key
\* (instance id, function name, model id) the detector queried when it raised
\* the incident.
EvidenceIsFetchedForTheDetectedResource ==
    \A k \in 1..Len(collected) :
        LET incident == collected[k].incident
            calls    == collected[k].result.calls
        IN (options.command = "monitor"
              /\ incident.description.rule \in {"ec2", "lambda", "bedrock"}) =>
               \A c \in 1..Len(calls) : calls[c].arg = incident.description.name

\* C28: for every positive ec2_cpu_duration_minutes, EC2CPUSpikeDetector.detect
\* emits no incident for an instance none of whose datapoints has Maximum
\* strictly above ec2_cpu_threshold.
NoEC2FalsePositive ==
    \A k \in 1..Len(returned) :
        (/\ returned[k].detector = "EC2CPUSpikeDetector"
         /\ ~returned[k].result.raised
         /\ settings.ec2_cpu_duration_minutes > 0) =>
            \A n \in 1..Len(returned[k].result.value) :
                LET instance_id == returned[k].result.value[n].resource
                    series      == cloud.cpu[instance_id]
                IN \E d \in 1..Len(series) :
                       series[d].Maximum > settings.ec2_cpu_threshold

\* C29: when dependencies and credentials are available and run_all_detectors
\* returns n incidents, the success response of do_GET holds one entry per
\* returned incident, in order, and incident_count is n: no incident a
\* detector built is dropped
ScanEndpointReportsWhatWasDetected ==
    (/\ reply.call = "do_GET"
     /\ reply.status = 200
     /\ reply.success
     /\ "incident_count" \in DOMAIN reply)
        => /\ reply.incident_count = Len(all_incidents)
           /\ Len(reply.incidents) = Len(all_incidents)
           /\ \A k \in 1..Len(reply.incidents) :
                  k <= Len(all_incidents) => reply.incidents[k].id = all_incidents[k].id

\* The calls of sanitize_error_message that have returned: the direct ones and
\* the one do_GET makes of the error of a source constructor
SanitizeCalls ==
    IF reply.call = "sanitize_error_message"
    THEN {[error |-> reply.error, result |-> reply.result]}
    ELSE IF reply.call = "do_GET" /\ reply.status = 500
    THEN {[error |-> options.source_error, result |-> reply.error]}
    ELSE {}

\* C30: for every error whose text contains "AuthFailure" or
\* "InvalidClientTokenId" sanitize_error_message returns the
\* authentication-failed message, for "AccessDenied" or "UnauthorizedOperation"
\* the access-denied message, and for "RequestLimitExceeded" or "Throttling"
\* the rate-limit message, whatever include_details is
KnownErrorsGetTheirHelpMessage ==
    \A c \in SanitizeCalls :
        /\ (\/ Contains(c.error, Txt_AuthFailure)
            \/ Contains(c.error, Txt_InvalidClientTokenId))
               => c.result = Msg_authentication_failed
        /\ (\/ Contains(c.error, Txt_AccessDenied)
            \/ Contains(c.error, Txt_UnauthorizedOperation))
               => c.result = Msg_access_denied
        /\ (\/ Contains(c.error, Txt_RequestLimitExceeded)
            \/ Contains(c.error, Txt_Throttling))
               => c.result = Msg_rate_limit

====
